---- MODULE Spec2Model ----
(***************************************************************************)
(* A model of the dependency-diagnostics extension: the Validator of one   *)
(* package.json (src/src/validator.ts) and the registration lifecycle      *)
(* around it (src/src/extension.ts).                                       *)
(*                                                                         *)
(* Text is modelled character by character: a string is a sequence of      *)
(* one-character strings, so that the text search of findVersionRange and  *)
(* the offsets it computes are the ones the code computes.                 *)
(***************************************************************************)
EXTENDS Integers, Sequences, FiniteSets, TLC

(***************************************************************************)
(* Strings                                                                 *)
(***************************************************************************)
Digits == <<"0", "1", "2", "3", "4", "5", "6", "7", "8", "9">>

IsDigit(c) == \E i \in 1..10 : Digits[i] = c

DigitVal(c) == (CHOOSE i \in 1..10 : Digits[i] = c) - 1

IsSpace(c) == c \in {" ", "\n", "\t", "\r"}

\* The first index >= i at which character c occurs in s, or 0.
RECURSIVE IndexOfChar(_, _, _)
IndexOfChar(s, c, i) ==
    IF i > Len(s) THEN 0
    ELSE IF s[i] = c THEN i
    ELSE IndexOfChar(s, c, i + 1)

IsPrefixAt(s, sub, i) ==
    /\ i + Len(sub) - 1 <= Len(s)
    /\ \A k \in 1..Len(sub) : s[i + k - 1] = sub[k]

\* String.prototype.indexOf: the 0-based offset of the first occurrence of
\* sub in s, or -1.
RECURSIVE IndexOfFrom(_, _, _)
IndexOfFrom(s, sub, i) ==
    IF i + Len(sub) - 1 > Len(s) THEN -1
    ELSE IF IsPrefixAt(s, sub, i) THEN i - 1
    ELSE IndexOfFrom(s, sub, i + 1)

IndexOf(s, sub) == IndexOfFrom(s, sub, 1)

\* s split at every occurrence of character c.
RECURSIVE Split(_, _)
Split(s, c) ==
    LET i == IndexOfChar(s, c, 1)
    IN  IF i = 0 THEN <<s>>
        ELSE <<SubSeq(s, 1, i - 1)>> \o Split(SubSeq(s, i + 1, Len(s)), c)

IsNumber(s) == s # <<>> /\ \A i \in 1..Len(s) : IsDigit(s[i])

RECURSIVE ToNumber(_)
ToNumber(s) ==
    IF s = <<>> THEN 0
    ELSE 10 * ToNumber(SubSeq(s, 1, Len(s) - 1)) + DigitVal(s[Len(s)])

(***************************************************************************)
(* semver.satisfies(installed, declared, { includePrerelease: true })      *)
(* for the version and range forms the model's inputs use: versions        *)
(* M.m.p and M.m.p-tag, ranges ^M.m.p, ~M.m.p, M.m.p and *; any other      *)
(* range text is not a range and satisfies nothing.                        *)
(***************************************************************************)
NoVersion == [ok |-> FALSE, major |-> 0, minor |-> 0, patch |-> 0, pre |-> <<>>]

ParseVersion(s) ==
    LET dash == IndexOfChar(s, "-", 1)
        main == IF dash = 0 THEN s ELSE SubSeq(s, 1, dash - 1)
        pre  == IF dash = 0 THEN <<>> ELSE SubSeq(s, dash + 1, Len(s))
        nums == Split(main, ".")
    IN  IF /\ Len(nums) = 3
           /\ \A i \in 1..3 : IsNumber(nums[i])
           /\ (dash # 0 => pre # <<>>)
        THEN [ok |-> TRUE, major |-> ToNumber(nums[1]), minor |-> ToNumber(nums[2]),
              patch |-> ToNumber(nums[3]), pre |-> pre]
        ELSE NoVersion

CompareNum(a, b) == IF a < b THEN -1 ELSE IF a > b THEN 1 ELSE 0

\* Prerelease tags: a version without a tag is greater than one with a tag;
\* the numeric tag "0" is the lowest tag; other tags are compared for equality
\* only (the inputs hold one non-numeric tag).
ComparePre(a, b) ==
    IF a = b THEN 0
    ELSE IF a = <<>> THEN 1
    ELSE IF b = <<>> THEN -1
    ELSE IF a = <<"0">> THEN -1
    ELSE IF b = <<"0">> THEN 1
    ELSE 0

CompareVersions(a, b) ==
    IF a.major # b.major THEN CompareNum(a.major, b.major)
    ELSE IF a.minor # b.minor THEN CompareNum(a.minor, b.minor)
    ELSE IF a.patch # b.patch THEN CompareNum(a.patch, b.patch)
    ELSE ComparePre(a.pre, b.pre)

Ver(M, m, p, pre) == [ok |-> TRUE, major |-> M, minor |-> m, patch |-> p, pre |-> pre]

\* A range as the pair of comparators it desugars to: lo <= v < hi, or
\* v = lo (exact), or everything (any).
NoRange == [kind |-> "invalid", lo |-> NoVersion, hi |-> NoVersion]

ParseRange(s) ==
    IF s = <<>> \/ s = <<"*">> THEN [kind |-> "any", lo |-> NoVersion, hi |-> NoVersion]
    ELSE IF s[1] \in {"^", "~"} THEN
        LET v == ParseVersion(SubSeq(s, 2, Len(s)))
            z == <<"0">>
        IN  IF ~v.ok THEN NoRange
            ELSE IF s[1] = "~" THEN
                [kind |-> "between", lo |-> v, hi |-> Ver(v.major, v.minor + 1, 0, z)]
            ELSE IF v.major # 0 THEN
                [kind |-> "between", lo |-> v, hi |-> Ver(v.major + 1, 0, 0, z)]
            ELSE IF v.minor # 0 THEN
                [kind |-> "between",
                 lo |-> IF v.pre = <<>> THEN Ver(0, v.minor, v.patch, z) ELSE v,
                 hi |-> Ver(0, v.minor + 1, 0, z)]
            ELSE
                [kind |-> "between",
                 lo |-> IF v.pre = <<>> THEN Ver(0, 0, v.patch, z) ELSE v,
                 hi |-> Ver(0, 0, v.patch + 1, z)]
    ELSE
        LET v == ParseVersion(s)
        IN  IF v.ok THEN [kind |-> "exact", lo |-> v, hi |-> v] ELSE NoRange

Satisfies(installed, declared) ==
    LET r == ParseRange(declared)
        v == ParseVersion(installed)
    IN  /\ r.kind # "invalid"
        /\ v.ok
        /\ CASE r.kind = "any"     -> TRUE
             [] r.kind = "exact"   -> CompareVersions(v, r.lo) = 0
             [] r.kind = "between" -> /\ CompareVersions(v, r.lo) >= 0
                                      /\ CompareVersions(v, r.hi) < 0

(***************************************************************************)
(* The manifest document.  A document is its text; the model keeps the     *)
(* text's structure (sections of key/value entries, each with the raw      *)
(* characters of its key and value and the white space after the colon)    *)
(* and derives both getText() and JSON.parse() from it.                    *)
(***************************************************************************)
Quote(s) == <<"\"">> \o s \o <<"\"">>

RECURSIVE RenderEntries(_)
RenderEntries(es) ==
    IF es = <<>> THEN <<>>
    ELSE LET e == Head(es)
         IN  <<" ">> \o Quote(e.rawKey) \o <<":">> \o e.sep \o Quote(e.rawVal)
             \o (IF Len(es) = 1 THEN <<>> ELSE <<",">>) \o <<"\n">>
             \o RenderEntries(Tail(es))

RECURSIVE RenderSections(_)
RenderSections(ss) ==
    IF ss = <<>> THEN <<>>
    ELSE LET sec == Head(ss)
         IN  Quote(sec.name) \o <<":", "{", "\n">> \o RenderEntries(sec.entries)
             \o <<"}">> \o (IF Len(ss) = 1 THEN <<>> ELSE <<",">>) \o <<"\n">>
             \o RenderSections(Tail(ss))

\* TextDocument.getText(): a document that is not well-formed JSON lacks its
\* closing brace.
getText(doc) ==
    <<"{", "\n">> \o RenderSections(doc.sections) \o (IF doc.ok THEN <<"}">> ELSE <<>>)

\* The characters a JSON string literal denotes: the escape \/ is a slash
\* and the escape \u005e is a caret.
RECURSIVE Unescape(_)
Unescape(raw) ==
    IF raw = <<>> THEN <<>>
    ELSE IF raw[1] = "\\" /\ Len(raw) >= 2 /\ raw[2] = "/"
        THEN <<"/">> \o Unescape(SubSeq(raw, 3, Len(raw)))
    ELSE IF raw[1] = "\\" /\ Len(raw) >= 6 /\ SubSeq(raw, 2, 6) = <<"u", "0", "0", "5", "e">>
        THEN <<"^">> \o Unescape(SubSeq(raw, 7, Len(raw)))
    ELSE <<raw[1]>> \o Unescape(Tail(raw))

\* A JavaScript object as the sequence of its own [k, v] properties in
\* insertion order.  Assigning an existing key keeps its place.
HasKey(obj, k) == \E i \in 1..Len(obj) : obj[i].k = k

Get(obj, k) == obj[CHOOSE i \in 1..Len(obj) : obj[i].k = k].v

Put(obj, k, v) ==
    IF HasKey(obj, k)
    THEN [i \in 1..Len(obj) |-> IF obj[i].k = k THEN [k |-> k, v |-> v] ELSE obj[i]]
    ELSE Append(obj, [k |-> k, v |-> v])

\* { ...obj, ...src }
RECURSIVE Spread(_, _)
Spread(obj, src) ==
    IF src = <<>> THEN obj
    ELSE Spread(Put(obj, Head(src).k, Head(src).v), Tail(src))

RECURSIVE ParseEntries(_)
ParseEntries(es) ==
    IF es = <<>> THEN <<>>
    ELSE Put(ParseEntries(SubSeq(es, 1, Len(es) - 1)),
             Unescape(es[Len(es)].rawKey), Unescape(es[Len(es)].rawVal))

RECURSIVE ParseSections(_)
ParseSections(ss) ==
    IF ss = <<>> THEN <<>>
    ELSE Put(ParseSections(SubSeq(ss, 1, Len(ss) - 1)),
             ss[Len(ss)].name, ParseEntries(ss[Len(ss)].entries))

\* JSON.parse(this.document.getText()): throws on text that is not JSON.
JSONParse(doc) ==
    IF doc.ok THEN [threw |-> FALSE, value |-> ParseSections(doc.sections)]
    ELSE [threw |-> TRUE, value |-> <<>>]

DEPENDENCIES == <<"d", "e", "p", "e", "n", "d", "e", "n", "c", "i", "e", "s">>

DEV_DEPENDENCIES == <<"d", "e", "v", "D", "e", "p", "e", "n", "d", "e", "n", "c", "i", "e", "s">>

PEER_DEPENDENCIES == <<"p", "e", "e", "r", "D", "e", "p", "e", "n", "d", "e", "n", "c", "i", "e", "s">>

\* pkg.<name>, or the empty object where spreading undefined spreads nothing.
Member(pkg, name) == IF HasKey(pkg, name) THEN Get(pkg, name) ELSE <<>>

\* Faulty variants of getAllDependencies, against which the properties of
\* the merge are tested: one lets the dependencies value win, the other
\* merges peerDependencies as well.
getAllDependenciesDevFirst(pkg) ==
    Spread(Spread(<<>>, Member(pkg, DEV_DEPENDENCIES)), Member(pkg, DEPENDENCIES))

getAllDependenciesWithPeer(pkg) ==
    Spread(Spread(Spread(<<>>, Member(pkg, DEPENDENCIES)), Member(pkg, DEV_DEPENDENCIES)),
           Member(pkg, PEER_DEPENDENCIES))

getAllDependencies(pkg) ==
    Spread(Spread(<<>>, Member(pkg, DEPENDENCIES)), Member(pkg, DEV_DEPENDENCIES))

(***************************************************************************)
(* node_modules: for each package name, what reading                       *)
(* <root>/node_modules/<name>/package.json gives.                          *)
(***************************************************************************)
FileKinds == {"missing", "unreadable", "unparsable", "noversion", "version"}

File(nm, depName) ==
    IF depName \in DOMAIN nm THEN nm[depName] ELSE [kind |-> "missing", version |-> <<>>]

\* A faulty variant of getInstalledVersion whose JSON.parse stands outside
\* the try: an unparsable file raises to the caller.
getInstalledVersionRaising(nm, depName) ==
    LET f == File(nm, depName)
    IN  IF f.kind = "unparsable"
            THEN [threw |-> TRUE, defined |-> FALSE, v |-> <<>>]
        ELSE IF f.kind = "version"
            THEN [threw |-> FALSE, defined |-> TRUE, v |-> f.version]
        ELSE [threw |-> FALSE, defined |-> FALSE, v |-> <<>>]

\* The value returned and whether anything was raised to the caller:
\* readFileSync throws on a missing or unreadable file and JSON.parse on an
\* unparsable one, both inside the try; a package.json without a version
\* field gives undefined.
getInstalledVersion(nm, depName) ==
    LET f == File(nm, depName)
    IN  IF f.kind \in {"missing", "unreadable"}
            THEN [threw |-> FALSE, defined |-> FALSE, v |-> <<>>]
        ELSE IF f.kind = "unparsable"
            THEN [threw |-> FALSE, defined |-> FALSE, v |-> <<>>]
        ELSE IF f.kind = "noversion"
            THEN [threw |-> FALSE, defined |-> FALSE, v |-> <<>>]
        ELSE [threw |-> FALSE, defined |-> TRUE, v |-> f.version]

\* JavaScript truthiness of string | null | undefined.
Truthy(installed) == installed.defined /\ installed.v # <<>>

\* A faulty variant of isVersionValid without includePrerelease: an
\* installed pre-release satisfies no range of the model's inputs (none of
\* them has a pre-release comparator).
isVersionValidReleasesOnly(installed, declared) ==
    IF ~Truthy(installed) THEN FALSE
    ELSE ParseVersion(installed.v).pre = <<>> /\ Satisfies(installed.v, declared)

\* A faulty variant of isVersionValid that lets a package that is not
\* installed pass.
isVersionValidAbsentPasses(installed, declared) ==
    IF ~Truthy(installed) THEN TRUE ELSE Satisfies(installed.v, declared)

isVersionValid(installed, declared) ==
    IF ~Truthy(installed) THEN FALSE ELSE Satisfies(installed.v, declared)

(***************************************************************************)
(* findVersionRange: the regular expression                                *)
(*     "<depName>"\s*:\s*"(<version, escaped>)"                            *)
(* as a sequence of elements: a literal character, any character but a     *)
(* line break (an unescaped dot of depName), or \s*.                       *)
(***************************************************************************)
Lit(c) == [t |-> "lit", c |-> c]

AnyChar == [t |-> "any", c |-> "."]

SpaceStar == [t |-> "ws", c |-> " "]

\* depName goes into the pattern as it is: its dots are wildcards.
NamePattern(depName) ==
    [i \in 1..Len(depName) |-> IF depName[i] = "." THEN AnyChar ELSE Lit(depName[i])]

\* version.replace(/[.*+?^${}()|[\]\\]/g, "\\$&"): every character of the
\* version stands for itself.
EscapedPattern(version) == [i \in 1..Len(version) |-> Lit(version[i])]

VersionRegex(depName, version) ==
    <<Lit("\"")>> \o NamePattern(depName) \o <<Lit("\""), SpaceStar, Lit(":"), SpaceStar, Lit("\"")>>
    \o EscapedPattern(version) \o <<Lit("\"")>>

\* The index after the match of pat[k..] at text[i..], or 0 when there is
\* none.  \s* is followed by a character that is no white space, so taking
\* all the white space is the only way to match.
RECURSIVE MatchFrom(_, _, _, _)
MatchFrom(text, i, pat, k) ==
    IF k > Len(pat) THEN i
    ELSE IF pat[k].t = "ws" THEN
        IF i <= Len(text) /\ IsSpace(text[i])
        THEN MatchFrom(text, i + 1, pat, k)
        ELSE MatchFrom(text, i, pat, k + 1)
    ELSE IF i > Len(text) THEN 0
    ELSE IF pat[k].t = "any" THEN
        IF text[i] \notin {"\n", "\r"} THEN MatchFrom(text, i + 1, pat, k + 1) ELSE 0
    ELSE IF text[i] = pat[k].c THEN MatchFrom(text, i + 1, pat, k + 1)
    ELSE 0

\* regex.exec(text): the leftmost match, as [found, index (0-based), all].
RECURSIVE ExecFrom(_, _, _)
ExecFrom(text, pat, i) ==
    IF i > Len(text) THEN [found |-> FALSE, index |-> 0, all |-> <<>>]
    ELSE LET e == MatchFrom(text, i, pat, 1)
         IN  IF e # 0 THEN [found |-> TRUE, index |-> i - 1, all |-> SubSeq(text, i, e - 1)]
             ELSE ExecFrom(text, pat, i + 1)

Exec(text, pat) == ExecFrom(text, pat, 1)

\* The number of line breaks in text[1..n].
RECURSIVE CountLines(_, _)
CountLines(text, n) ==
    IF n = 0 THEN 0
    ELSE CountLines(text, n - 1) + (IF text[n] = "\n" THEN 1 ELSE 0)

\* The 0-based offset at which the line holding offset begins.
RECURSIVE LineStart(_, _)
LineStart(text, offset) ==
    IF offset = 0 THEN 0
    ELSE IF text[offset] = "\n" THEN offset
    ELSE LineStart(text, offset - 1)

\* TextDocument.positionAt(offset)
positionAt(text, offset) ==
    [line |-> CountLines(text, offset), character |-> offset - LineStart(text, offset)]

NoRangeFound ==
    [found |-> FALSE, offset |-> 0, startLine |-> 0, startChar |-> 0, endLine |-> 0, endChar |-> 0]

\* The range, with the offset of its start in the text kept beside the
\* position.
findVersionRange(text, depName, version) ==
    LET match == Exec(text, VersionRegex(depName, version))
    IN  IF ~match.found THEN NoRangeFound
        ELSE LET offset == match.index + IndexOf(match.all, version)
                 start  == positionAt(text, offset)
             IN  [found |-> TRUE, offset |-> offset,
                  startLine |-> start.line, startChar |-> start.character,
                  endLine |-> start.line, endChar |-> start.character + Len(version)]

(***************************************************************************)
(* Validator.validateDependencies                                          *)
(***************************************************************************)
\* A faulty variant of the mismatch message that leaves the declared range
\* out.
MismatchMessageInstalledOnly(installedVersion, declaredVersion) ==
    [text |-> "Installed version (<installed>) does not match declared version (<declared>)",
     installed |-> installedVersion, declared |-> <<>>]

MismatchMessage(installedVersion, declaredVersion) ==
    [text |-> "Installed version (<installed>) does not match declared version (<declared>)",
     installed |-> installedVersion, declared |-> declaredVersion]

NotInstalledMessage ==
    [text |-> "Dependency not installed", installed |-> <<>>, declared |-> <<>>]

\* One turn of the loop over Object.entries(dependencies): the diagnostics
\* it pushes (none or one).
CheckDependency(text, nm, dependencyName, declaredVersion) ==
    LET installedVersion == getInstalledVersion(nm, dependencyName)
    IN  IF isVersionValid(installedVersion, declaredVersion) THEN <<>>
        ELSE LET range == findVersionRange(text, dependencyName, declaredVersion)
             IN  IF ~range.found THEN <<>>
                 ELSE <<[dep      |-> dependencyName,
                         range    |-> range,
                         message  |-> IF Truthy(installedVersion)
                                      THEN MismatchMessage(installedVersion.v, declaredVersion)
                                      ELSE NotInstalledMessage,
                         severity |-> IF Truthy(installedVersion) THEN "Error" ELSE "Warning",
                         source   |-> "dependency-diagnostics",
                         code     |-> IF Truthy(installedVersion)
                                      THEN "version-mismatch" ELSE "not-installed"]>>

\* A faulty variant of the loop that ends (break) where the code goes on to
\* the next dependency (continue) when no span is found.
RECURSIVE CheckAllBreaking(_, _, _)
CheckAllBreaking(text, nm, dependencies) ==
    IF dependencies = <<>> THEN <<>>
    ELSE IF /\ ~isVersionValid(getInstalledVersion(nm, Head(dependencies).k),
                               Head(dependencies).v)
            /\ ~findVersionRange(text, Head(dependencies).k, Head(dependencies).v).found
         THEN <<>>
    ELSE CheckDependency(text, nm, Head(dependencies).k, Head(dependencies).v)
         \o CheckAllBreaking(text, nm, Tail(dependencies))

RECURSIVE CheckAll(_, _, _)
CheckAll(text, nm, dependencies) ==
    IF dependencies = <<>> THEN <<>>
    ELSE CheckDependency(text, nm, Head(dependencies).k, Head(dependencies).v)
         \o CheckAll(text, nm, Tail(dependencies))

\* A faulty variant of validateDependencies without the delete: a pass
\* that finds nothing leaves the entry of the pass before.
validateDependenciesKeeping(entry, doc, nm) ==
    LET packageJson == JSONParse(doc)
    IN  IF packageJson.threw
        THEN [threw |-> TRUE, valid |-> TRUE, entry |-> entry]
        ELSE LET diagnosticsList ==
                     CheckAll(getText(doc), nm, getAllDependencies(packageJson.value))
             IN  IF Len(diagnosticsList) > 0
                 THEN [threw |-> FALSE, valid |-> FALSE, entry |-> diagnosticsList]
                 ELSE [threw |-> FALSE, valid |-> TRUE, entry |-> entry]

\* A faulty variant of validateDependencies without the delete that adds
\* what it finds to the entry of the pass before.
validateDependenciesAppending(entry, doc, nm) ==
    LET packageJson == JSONParse(doc)
    IN  IF packageJson.threw
        THEN [threw |-> TRUE, valid |-> TRUE, entry |-> entry]
        ELSE LET diagnosticsList ==
                     CheckAll(getText(doc), nm, getAllDependencies(packageJson.value))
             IN  IF Len(diagnosticsList) > 0
                 THEN [threw |-> FALSE, valid |-> FALSE, entry |-> entry \o diagnosticsList]
                 ELSE [threw |-> FALSE, valid |-> TRUE, entry |-> entry]

\* The pass on a validator whose manifest has `entry` in the diagnostics
\* collection: what it leaves in valid and in the collection, and whether it
\* raised to its caller.  An empty entry is an absent one.
validateDependencies(entry, doc, nm) ==
    LET packageJson == JSONParse(doc)
    IN  IF packageJson.threw
        THEN [threw |-> TRUE, valid |-> TRUE, entry |-> <<>>]
        ELSE LET dependencies    == getAllDependencies(packageJson.value)
                 diagnosticsList == CheckAll(getText(doc), nm, dependencies)
             IN  IF \E i \in 1..Len(dependencies) :
                        getInstalledVersion(nm, dependencies[i].k).threw
                 THEN [threw |-> TRUE, valid |-> TRUE, entry |-> <<>>]
                 ELSE IF Len(diagnosticsList) > 0
                 THEN [threw |-> FALSE, valid |-> FALSE, entry |-> diagnosticsList]
                 ELSE [threw |-> FALSE, valid |-> TRUE, entry |-> <<>>]

(***************************************************************************)
(* Inputs of the validation pass: manifests and node_modules states.       *)
(***************************************************************************)
MaxEntries == 2

NameA == <<"a">>

NameB == <<"b">>

Names == {NameA, NameB}

Caret1 == <<"^", "1", ".", "0", ".", "0">>

Caret2 == <<"^", "2", ".", "0", ".", "0">>

V120 == <<"1", ".", "2", ".", "0">>

V200 == <<"2", ".", "0", ".", "0">>

V100beta1 == <<"1", ".", "0", ".", "0", "-", "b", "e", "t", "a", ".", "1">>

V110beta1 == <<"1", ".", "1", ".", "0", "-", "b", "e", "t", "a", ".", "1">>

\* A string as a JSON literal that writes each caret as the escape \u005e.
RECURSIVE EscapeCarets(_)
EscapeCarets(s) ==
    IF s = <<>> THEN <<>>
    ELSE (IF s[1] = "^" THEN <<"\\", "u", "0", "0", "5", "e">> ELSE <<s[1]>>)
         \o EscapeCarets(Tail(s))

SectionNames == <<DEPENDENCIES, DEV_DEPENDENCIES, PEER_DEPENDENCIES>>

\* An entry of a manifest under construction: the section it goes to, its
\* key and value, and whether the value's caret is written as an escape.
Placed ==
    [sec : {1, 2}, key : {NameA}, val : {Caret1, Caret2}, escaped : BOOLEAN]
    \cup [sec : {1}, key : {NameB}, val : {Caret1}, escaped : {FALSE}]
    \cup [sec : {3}, key : Names, val : {Caret1}, escaped : {FALSE}]

RECURSIVE SeqsUpTo(_, _)
SeqsUpTo(S, n) ==
    IF n = 0 THEN {<<>>}
    ELSE LET shorter == SeqsUpTo(S, n - 1)
         IN  shorter \cup {Append(q, x) : q \in {r \in shorter : Len(r) = n - 1}, x \in S}

EntryOf(pl) ==
    [rawKey |-> pl.key,
     rawVal |-> IF pl.escaped THEN EscapeCarets(pl.val) ELSE pl.val,
     sep    |-> <<" ">>]

EntriesOf(placed, sec) ==
    LET sel == SelectSeq(placed, LAMBDA pl : pl.sec = sec)
    IN  [i \in 1..Len(sel) |-> EntryOf(sel[i])]

RECURSIVE SectionsOf(_, _)
SectionsOf(placed, sec) ==
    IF sec > Len(SectionNames) THEN <<>>
    ELSE (IF EntriesOf(placed, sec) = <<>> THEN <<>>
          ELSE <<[name |-> SectionNames[sec], entries |-> EntriesOf(placed, sec)]>>)
         \o SectionsOf(placed, sec + 1)

DocOf(placed, ok) == [ok |-> ok, sections |-> SectionsOf(placed, 1)]

Manifests ==
    {DocOf(placed, TRUE) : placed \in SeqsUpTo(Placed, MaxEntries)}
    \cup {DocOf(<<[sec |-> 1, key |-> NameA, val |-> Caret1, escaped |-> FALSE]>>, FALSE)}

FileStates ==
    [kind : {"missing", "unreadable", "unparsable", "noversion"}, version : {<<>>}]
    \cup [kind : {"version"}, version : {V120, V200, <<>>}]

NodeModules ==
    {[n \in Names |-> IF n = NameA THEN fa ELSE fb] :
        fa \in FileStates,
        fb \in {f \in FileStates : f.kind = "missing" \/ f.version = V120}}

\* Installed versions between releases: one manifest entry a: ^1.0.0 or
\* a: ^2.0.0 with a pre-release of package a installed.
PrereleaseInputs ==
    {<<DocOf(<<[sec |-> 1, key |-> NameA, val |-> val, escaped |-> FALSE]>>, TRUE),
       [n \in Names |-> IF n = NameA THEN [kind |-> "version", version |-> v]
                        ELSE [kind |-> "missing", version |-> <<>>]]>> :
        val \in {Caret1, Caret2}, v \in {V100beta1, V110beta1}}

NameDot == <<"a", ".", "b">>

NameX == <<"a", "x", "b">>

\* Manifests in which a pair that the pattern of a checked dependency
\* matches stands before its declaration: peerDependencies written before
\* dependencies with the same pair, and a key that differs from the name a.b
\* where the name has its dot; nothing is installed.
PlacementInputs ==
    {<<[ok |-> TRUE, sections |-> ss], [n \in Names |-> [kind |-> "missing", version |-> <<>>]]>> :
        ss \in {<<[name |-> PEER_DEPENDENCIES,
                   entries |-> <<[rawKey |-> NameA, rawVal |-> Caret1, sep |-> <<" ">>]>>],
                  [name |-> DEPENDENCIES,
                   entries |-> <<[rawKey |-> NameA, rawVal |-> Caret1, sep |-> <<" ">>]>>]>>,
                <<[name |-> DEPENDENCIES,
                   entries |-> <<[rawKey |-> NameX, rawVal |-> Caret1, sep |-> <<" ">>],
                                 [rawKey |-> NameDot, rawVal |-> Caret1, sep |-> <<" ">>]>>]>>}}

\* The inputs of one validation pass: a manifest and a node_modules state.
PassInputs == (Manifests \X NodeModules) \cup PrereleaseInputs \cup PlacementInputs

(***************************************************************************)
(* The workspace of the extension: two package roots, each with a          *)
(* package.json (present or not, well-formed or not) and a node_modules    *)
(* (the declared package installed or not).                                *)
(***************************************************************************)
MaxValidators == 3

QuietTicks == 2

\* How many things the user, the file system and the host may do (files
\* created, deleted, edited or saved, node_modules or the setting changed,
\* the warning answered, the extension deactivated) in one behaviour.
MaxChanges == 3

Paths == {"app", "lib"}

\* The order in which findFiles lists the manifests it finds.
PathOrder == <<"app", "lib">>

DocKinds == {"good", "bad"}

NmKinds == {"ok", "gone"}

GoodEntry == [sec |-> 1, key |-> NameA, val |-> Caret1, escaped |-> FALSE]

WorkDoc(kind) == DocOf(<<GoodEntry>>, kind = "good")

WorkNm(kind) ==
    [n \in Names |->
        IF n = NameA /\ kind = "ok" THEN [kind |-> "version", version |-> V120]
        ELSE [kind |-> "missing", version |-> <<>>]]

\* The settings dependencyDiagnostics.ignoredDirectories can take: nothing,
\* or the pattern lib/**.
IgnoreSettings == {{}, {"lib"}}

\* The roots whose manifest text and node_modules change while the extension
\* runs; the other root keeps a well-formed manifest whose package is not
\* installed.
ChangingRoots == {"app"}

VARIABLES
    exists,              \* exists[p]: the package.json of root p is on disk
    text,                \* text[p]: what its TextDocument holds
    nm,                  \* nm[p]: the state of <p>/node_modules
    ignoredDirectories,  \* the module's ignoredDirectories, less **/node_modules/**
    objs,                \* every Validator constructed so far, in order
    validators,          \* the validators map: root -> index in objs, 0 for none
    order,               \* the keys of the validators map, in insertion order
    active,              \* the subscriptions of activate() are not disposed yet
    strictHost,          \* the diagnostics collection is disposed and throws when used
    diagnostics,         \* the diagnostics collection: root -> its entry
    scans,               \* the scanWorkspacePackages calls in flight
    creates,             \* roots whose onDidCreate handler awaits its document
    warning,             \* the package roots of the last warning shown
    event,               \* the handler that ran last and what came of it
    changes,             \* how many things have happened to the workspace
    inDoc, inNm, out,    \* the validation pass on its own (see SpecV)
    again,               \* the same pass run once more on the same inputs
    locks,               \* locks[p]: the lock files present in root p (see SpecI)
    terminals,           \* the terminals installDependencies has created
    offered              \* the quick fixes asked for last (see SpecQ)

\* What the host's deactivation changes.
hvars == <<active, strictHost>>

lvars == <<exists, text, nm, ignoredDirectories, objs, validators, order, active,
           strictHost,
           diagnostics, scans, creates, warning, event, changes>>

ivars == <<locks, terminals>>

qvars == <<offered>>

vvars == <<inDoc, inNm, out, again, ivars, qvars>>

vars == <<lvars, vvars>>

NotRun == [ran |-> FALSE, threw |-> FALSE, valid |-> TRUE, entry |-> <<>>]

NotAsked == [ran |-> FALSE, context |-> <<>>, actions |-> <<>>]

\* What the last handler did: its kind, the root and the validator it worked
\* on, whether an exception left it, whether it called showNotification; for
\* the end of a scan the manifests found and those given a validator; for a
\* timer the number of triggers its timeout stood for and the ticks since
\* the last of them; for a validation pass whether the manifest had
\* diagnostics in the collection when the pass began; for the delete
\* handler whether the manifest had diagnostics and how many timeouts its
\* validator had pending; for the configuration handler and the
\* deactivation (found) the roots that had a validator registered.
NoEvent ==
    [kind |-> "none", path |-> "", obj |-> 0, threw |-> FALSE, notified |-> FALSE,
     found |-> {}, added |-> {}, burst |-> 0, quiet |-> 0, had |-> FALSE,
     installs |-> <<>>]

Ev(kind, path, obj, threw, notified) ==
    [NoEvent EXCEPT !.kind = kind, !.path = path, !.obj = obj, !.threw = threw,
                    !.notified = notified]

\* The record of a handler that ran a validation pass on root p.
PassEv(kind, p, obj, threw, notified) ==
    [Ev(kind, p, obj, threw, notified) EXCEPT !.had = diagnostics[p] # <<>>]

(***************************************************************************)
(* Installing: detectPackageManager (extension.ts) and installDependencies *)
(* (cmd.ts) on package roots holding any of the three lock files.          *)
(***************************************************************************)
MaxTerminals == 2

LockFiles == {"package-lock.json", "pnpm-lock.yaml", "yarn.lock"}

\* A faulty variant of detectPackageManager that looks for yarn.lock before
\* pnpm-lock.yaml.
detectPackageManagerYarnFirst(present) ==
    IF "package-lock.json" \in present THEN "npm"
    ELSE IF "yarn.lock" \in present THEN "yarn"
    ELSE IF "pnpm-lock.yaml" \in present THEN "pnpm"
    ELSE "npm"

\* detectPackageManager(root), present being the lock files fs.existsSync
\* finds in root.
detectPackageManager(present) ==
    IF "package-lock.json" \in present THEN "npm"
    ELSE IF "pnpm-lock.yaml" \in present THEN "pnpm"
    ELSE IF "yarn.lock" \in present THEN "yarn"
    ELSE "npm"

\* installDependencies(cwd): the terminal created and the text sent to it.
installDependencies(cwd, present) ==
    [name |-> "Dependency Diagnostics", cwd |-> cwd, shown |-> TRUE,
     text |-> detectPackageManager(present) \o " install"]

(***************************************************************************)
(* extension.ts                                                            *)
(***************************************************************************)
NoWarning == [shown |-> FALSE, pkgs |-> <<>>, fresh |-> FALSE]

isDirectoryIgnored(ignored, p) == p \in ignored

isValidPackageJson(ignored, p) == ~isDirectoryIgnored(ignored, p)

\* getInvalidPackages(): the roots of the invalid validators in the order
\* validators.values() yields them, keys being the keys of the map in
\* insertion order.
getInvalidPackages(keys, map, os) ==
    SelectSeq(keys, LAMBDA p : ~os[map[p]].valid)

\* showNotification: the warning on display afterwards, w being the one on
\* display before (the last one shown is kept), with the package roots its
\* "Fix all" will install in, and whether this call showed it.
showNotification(keys, map, os, w) ==
    IF getInvalidPackages(keys, map, os) = <<>> THEN [w EXCEPT !.fresh = FALSE]
    ELSE [shown |-> TRUE, pkgs |-> getInvalidPackages(keys, map, os), fresh |-> TRUE]

(***************************************************************************)
(* Validator: timers.  The pending timeouts of a validator are kept in the *)
(* order they were set; revalidationTimer is the last one set.  A timeout  *)
(* has its age in ticks, the notify flag of its callback and, for the      *)
(* record, the number of triggers since the validator's last timer pass.   *)
(***************************************************************************)
clearTimeout(timers) ==
    IF timers = <<>> THEN <<>> ELSE SubSeq(timers, 1, Len(timers) - 1)

\* A faulty variant of revalidate without the clearTimeout.
revalidateNoClear(timers, notify) ==
    Append(timers,
           [age |-> 0, notify |-> notify,
            burst |-> IF timers = <<>> THEN 1 ELSE timers[Len(timers)].burst + 1])

\* revalidate(notify): the timeouts pending afterwards.
revalidate(timers, notify) ==
    Append(clearTimeout(timers),
           [age |-> 0, notify |-> notify,
            burst |-> IF timers = <<>> THEN 1 ELSE timers[Len(timers)].burst + 1])

\* dispose(): the validator afterwards (its diagnostics are deleted by the
\* caller's step).
dispose(o) ==
    [o EXCEPT !.disposed = TRUE, !.timers = clearTimeout(o.timers),
              !.quiet = IF clearTimeout(o.timers) = <<>> THEN 0 ELSE @]

\* validateDependencies when the diagnostics collection is disposed and the
\* host's disposed collection throws when used (VS Code's does): valid is
\* set (validator.ts:73) and diagnostics.delete throws (validator.ts:74).
validateDependenciesDisposed == [threw |-> TRUE, valid |-> TRUE, entry |-> <<>>]

\* new Validator(doc): the object and the pass its constructor runs, doc
\* being the document openTextDocument has just resolved to.
ConstructorPass(p) ==
    IF strictHost THEN validateDependenciesDisposed
    ELSE validateDependencies(diagnostics[p], WorkDoc(text[p]), WorkNm(nm[p]))

\* The object the constructor leaves, r being its pass.  this.document is
\* the TextDocument the constructor was given: "live" while the host keeps
\* that document open, and otherwise the text it held when the host closed
\* it.
NewValidator(p, r) ==
    [path |-> p, valid |-> r.valid, disposed |-> FALSE, timers |-> <<>>, quiet |-> 0,
     doc |-> "live"]

\* this.document.getText() of validator o.
DocText(o) == IF o.doc = "live" THEN text[o.path] ELSE o.doc

\* The host closes the TextDocument of root p: the validators that hold it
\* keep the text it had (a disposed validator reads its document no more).
Detach(os, p) ==
    [i \in 1..Len(os) |->
        IF os[i].path = p /\ os[i].doc = "live" /\ ~os[i].disposed
        THEN [os[i] EXCEPT !.doc = text[p]]
        ELSE os[i]]

\* The pass of validator i on the document it was constructed with.
Pass(i) ==
    IF strictHost THEN validateDependenciesDisposed
    ELSE validateDependencies(diagnostics[objs[i].path], WorkDoc(DocText(objs[i])),
                              WorkNm(nm[objs[i].path]))

\* A faulty variant of the pass's write to the collection that clears the
\* whole collection where the code deletes the entry of its own document.
WriteEntryClearing(collection, p, entry) ==
    [q \in Paths |-> IF q = p THEN entry ELSE <<>>]

\* What a pass on the manifest of root p does to the diagnostics collection:
\* delete(this.document.uri), then set(this.document.uri, ...) when it found
\* something; entry is what it leaves for p.
WriteEntry(collection, p, entry) == [collection EXCEPT ![p] = entry]

(***************************************************************************)
(* State after activate() has registered its handlers and called           *)
(* scanWorkspacePackages, which awaits findFiles.                          *)
(***************************************************************************)
NewScan(ignored) == [stage |-> "find", exclude |-> ignored, files |-> <<>>, found |-> {}, added |-> {}]

Init ==
    /\ exists = [p \in Paths |-> TRUE]
    /\ text \in {t \in [Paths -> DocKinds] : \A p \in Paths \ ChangingRoots : t[p] = "good"}
    /\ nm \in {n \in [Paths -> NmKinds] : \A p \in Paths \ ChangingRoots : n[p] = "gone"}
    /\ ignoredDirectories = {}
    /\ objs = <<>>
    /\ validators = [p \in Paths |-> 0]
    /\ order = <<>>
    /\ active = TRUE
    /\ strictHost = FALSE
    /\ diagnostics = [p \in Paths |-> <<>>]
    /\ scans = <<NewScan(ignoredDirectories)>>
    /\ creates = {}
    /\ warning = NoWarning
    /\ event = NoEvent
    /\ changes = 0
    /\ inDoc = WorkDoc("good") /\ inNm = WorkNm("ok") /\ out = NotRun /\ again = NotRun
    /\ locks = [p \in Paths |-> {}] /\ terminals = <<>>
    /\ offered = NotAsked

Change == changes < MaxChanges /\ changes' = changes + 1

RemoveAt(q, i) == SubSeq(q, 1, i - 1) \o SubSeq(q, i + 1, Len(q))

\* addValidator(doc) for root p, r being the pass of the constructor: the
\* pass writes the diagnostics of p; when it throws, the map is not reached,
\* and the object, whose watchers are already created, stays behind.
AddValidator(p, r) ==
    /\ objs' = Append(objs, NewValidator(p, r))
    /\ diagnostics' = WriteEntry(diagnostics, p, r.entry)
    /\ validators' = IF r.threw THEN validators
                     ELSE [validators EXCEPT ![p] = Len(objs) + 1]
    /\ order' = IF r.threw \/ validators[p] # 0 THEN order ELSE Append(order, p)

\* findFiles resolves for scan k.
ScanFind(k) ==
    /\ UNCHANGED changes
    /\ scans[k].stage = "find"
    /\ LET files == SelectSeq(PathOrder, LAMBDA p : exists[p] /\ p \notin scans[k].exclude)
           found == {files[j] : j \in 1..Len(files)}
       IN  IF files = <<>>
           THEN /\ scans' = RemoveAt(scans, k)
                /\ warning' = showNotification(order, validators, objs, warning)
                /\ event' = [Ev("scanEnd", "", 0, FALSE, TRUE) EXCEPT !.found = {}]
           ELSE /\ scans' = [scans EXCEPT ![k] = [@ EXCEPT !.stage = "open", !.files = files,
                                                          !.found = found]]
                /\ event' = NoEvent
                /\ UNCHANGED warning
    /\ UNCHANGED <<exists, text, nm, ignoredDirectories, objs, validators, order, hvars,
                   diagnostics, creates, vvars>>

\* openTextDocument resolves (or rejects, the file being gone) for the next
\* file of scan k, and the loop body runs up to the next await.
ScanOpen(k) ==
    /\ UNCHANGED changes
    /\ scans[k].stage = "open"
    /\ Len(objs) < MaxValidators
    /\ \E r \in {ConstructorPass(Head(scans[k].files))} :
       LET p     == Head(scans[k].files)
           rest  == Tail(scans[k].files)
           added == scans[k].added \cup {p}
       IN  IF ~exists[p]
           THEN /\ scans' = RemoveAt(scans, k)
                /\ event' = [Ev("scanOpenFailed", p, 0, TRUE, FALSE) EXCEPT
                                !.found = scans[k].found, !.added = scans[k].added]
                /\ UNCHANGED <<objs, validators, order, diagnostics, warning>>
           ELSE /\ AddValidator(p, r)
                /\ IF r.threw
                   THEN /\ scans' = RemoveAt(scans, k)
                        /\ event' = [PassEv("scanEnd", p, Len(objs) + 1, TRUE, FALSE) EXCEPT
                                        !.found = scans[k].found, !.added = scans[k].added]
                        /\ UNCHANGED warning
                   ELSE IF rest # <<>>
                   THEN /\ scans' = [scans EXCEPT ![k] = [@ EXCEPT !.files = rest,
                                                                  !.added = added]]
                        /\ event' = PassEv("scanAdd", p, Len(objs) + 1, FALSE, FALSE)
                        /\ UNCHANGED warning
                   ELSE /\ scans' = RemoveAt(scans, k)
                        /\ warning' = showNotification(order', validators', objs', warning)
                        /\ event' = [PassEv("scanEnd", p, Len(objs) + 1, FALSE, TRUE) EXCEPT
                                        !.found = scans[k].found, !.added = added]
    /\ UNCHANGED <<exists, text, nm, ignoredDirectories, hvars, creates, vvars>>

\* A package.json appears in root p: packageWatcher.onDidCreate, while the
\* watcher is not disposed.
CreateFile(p, kind) ==
    /\ Change
    /\ ~exists[p]
    /\ p \notin creates
    /\ p \notin ChangingRoots => kind = "good"
    /\ exists' = [exists EXCEPT ![p] = TRUE]
    /\ text' = [text EXCEPT ![p] = kind]
    /\ creates' = IF active /\ isValidPackageJson(ignoredDirectories, p)
                  THEN creates \cup {p} ELSE creates
    /\ event' = NoEvent
    /\ UNCHANGED <<nm, ignoredDirectories, objs, validators, order, hvars, diagnostics,
                   scans, warning, vvars>>

\* openTextDocument resolves (or rejects) for the create handler of root p.
CreateOpen(p) ==
    /\ UNCHANGED changes
    /\ p \in creates
    /\ Len(objs) < MaxValidators
    /\ creates' = creates \ {p}
    /\ IF ~exists[p]
       THEN /\ event' = Ev("createEnd", p, 0, TRUE, FALSE)
            /\ UNCHANGED <<objs, validators, order, diagnostics>>
       ELSE \E r \in {ConstructorPass(p)} :
                /\ AddValidator(p, r)
                /\ event' = PassEv("createAdd", p, Len(objs) + 1, r.threw, FALSE)
    /\ UNCHANGED <<exists, text, nm, ignoredDirectories, hvars, scans, warning, vvars>>

\* removeValidator(packagePath), os being the validators as the host's
\* closing of the deleted file's document left them.
RemoveValidator(os, p) ==
    IF validators[p] = 0
    THEN /\ objs' = os
         /\ UNCHANGED <<validators, order, diagnostics>>
    ELSE /\ objs' = [os EXCEPT ![validators[p]] = dispose(@)]
         /\ diagnostics' = [diagnostics EXCEPT ![p] = <<>>]
         /\ validators' = [validators EXCEPT ![p] = 0]
         /\ order' = SelectSeq(order, LAMBDA q : q # p)

\* The package.json of root p is deleted: the host closes its document, and
\* packageWatcher.onDidDelete runs while the watcher is not disposed.
DeleteFile(p) ==
    /\ Change
    /\ exists[p]
    /\ exists' = [exists EXCEPT ![p] = FALSE]
    /\ IF active /\ isValidPackageJson(ignoredDirectories, p)
       THEN /\ RemoveValidator(Detach(objs, p), p)
            /\ event' = [Ev("delete", p, validators[p], FALSE, FALSE) EXCEPT
                            !.had = diagnostics[p] # <<>>,
                            !.burst = IF validators[p] = 0 THEN 0
                                      ELSE Len(objs[validators[p]].timers)]
       ELSE /\ objs' = Detach(objs, p)
            /\ UNCHANGED <<validators, order, diagnostics>>
            /\ event' = NoEvent
    /\ UNCHANGED <<text, nm, ignoredDirectories, hvars, scans, creates, warning, vvars>>

\* The validators in the map.
Registered == {validators[p] : p \in {q \in Paths : validators[q] # 0}}

\* disposeValidators(), collection being the diagnostics collection it
\* finds: every validator of the map is disposed, which deletes the entry
\* of its document, and the map is cleared.
disposeValidators(collection) ==
    /\ objs' = [i \in 1..Len(objs) |-> IF i \in Registered THEN dispose(objs[i]) ELSE objs[i]]
    /\ diagnostics' = [p \in Paths |-> IF validators[p] # 0 THEN <<>> ELSE collection[p]]
    /\ validators' = [p \in Paths |-> 0]
    /\ order' = <<>>

\* The setting changes: onDidChangeConfiguration, while it is subscribed.
ChangeConfiguration(setting) ==
    /\ Change
    /\ active
    /\ setting # ignoredDirectories
    /\ ignoredDirectories' = setting
    /\ disposeValidators(diagnostics)
    /\ scans' = Append(scans, NewScan(setting))
    /\ event' = [Ev("config", "", 0, FALSE, FALSE) EXCEPT
                    !.found = {p \in Paths : validators[p] # 0}]
    /\ UNCHANGED <<exists, text, nm, hvars, creates, warning, vvars>>

\* The host deactivates the extension and disposes context.subscriptions in
\* the order activate() pushed them: the diagnostics collection (which
\* clears it), the package watcher, disposeValidators(), then the provider,
\* the command and the two event handlers.  Promises and timeouts that are
\* pending stay pending.  strict: the host's disposed collection throws
\* when used (VS Code's does; another host's ignores the disposal), so the
\* first Validator.dispose throws at diagnostics.delete (validator.ts:50)
\* before it disposes its watchers or clears its timeout, validators.forEach
\* ends there and validators.clear() is not reached; the host goes on
\* disposing the subscriptions after it.
Deactivate(strict) ==
    /\ Change
    /\ active
    /\ active' = FALSE
    /\ strictHost' = strict
    /\ IF strict
       THEN /\ diagnostics' = [p \in Paths |-> <<>>]
            /\ UNCHANGED <<objs, validators, order>>
       ELSE disposeValidators([p \in Paths |-> <<>>])
    /\ event' = [Ev("deactivate", "", 0, strict /\ Registered # {}, FALSE) EXCEPT
                    !.found = {p \in Paths : validators[p] # 0}]
    /\ UNCHANGED <<exists, text, nm, ignoredDirectories, scans, creates, warning, vvars>>

\* The document of root p changes (typing, or a change on disk picked up).
\* reopened: the host had closed the TextDocument the validators of p were
\* constructed with, and the change is made in a newly opened one.
EditDocument(p, reopened) ==
    /\ Change
    /\ exists[p]
    /\ p \in ChangingRoots
    /\ text' = [text EXCEPT ![p] = IF @ = "good" THEN "bad" ELSE "good"]
    /\ objs' = IF reopened THEN Detach(objs, p) ELSE objs
    /\ event' = NoEvent
    /\ UNCHANGED <<exists, nm, ignoredDirectories, validators, order, hvars, diagnostics,
                   scans, creates, warning, vvars>>

\* The document of root p is saved: onDidSaveTextDocument, while it is
\* subscribed.
SaveDocument(p) ==
    /\ Change
    /\ active
    /\ exists[p]
    /\ IF ~isValidPackageJson(ignoredDirectories, p)
       THEN /\ event' = Ev("save", p, 0, FALSE, FALSE)
            /\ UNCHANGED <<objs, diagnostics, warning>>
       ELSE IF validators[p] = 0
       THEN /\ warning' = showNotification(order, validators, objs, warning)
            /\ event' = Ev("save", p, 0, FALSE, TRUE)
            /\ UNCHANGED <<objs, diagnostics>>
       ELSE \E r \in {Pass(validators[p])} :
            LET i == validators[p]
            IN  /\ objs' = [objs EXCEPT ![i].valid = r.valid]
                /\ diagnostics' = WriteEntry(diagnostics, p, r.entry)
                /\ IF r.threw
                   THEN /\ event' = PassEv("save", p, i, TRUE, FALSE)
                        /\ UNCHANGED warning
                   ELSE /\ warning' = showNotification(order, validators, objs', warning)
                        /\ event' = PassEv("save", p, i, FALSE, TRUE)
    /\ UNCHANGED <<exists, text, nm, ignoredDirectories, validators, order, hvars, scans,
                   creates, vvars>>

\* node_modules of root p changes: the declared package is installed
\* (package.json created: revalidate()) or removed (deleted:
\* revalidate(true)).  The watchers of every validator of p that is not
\* disposed fire.
ChangeNodeModules(p) ==
    /\ Change
    /\ p \in ChangingRoots
    /\ nm' = [nm EXCEPT ![p] = IF @ = "ok" THEN "gone" ELSE "ok"]
    /\ objs' = [i \in 1..Len(objs) |->
                   IF objs[i].path = p /\ ~objs[i].disposed
                   THEN [objs[i] EXCEPT !.timers = revalidate(@, nm[p] = "ok"), !.quiet = 0]
                   ELSE objs[i]]
    /\ event' = NoEvent
    /\ UNCHANGED <<exists, text, ignoredDirectories, validators, order, hvars, diagnostics,
                   scans, creates, warning, vvars>>

\* Time passes: one tick is a QuietTicks-th of the 1000 ms delay.
Tick ==
    /\ UNCHANGED changes
    /\ \E i \in 1..Len(objs) : \E j \in 1..Len(objs[i].timers) : objs[i].timers[j].age < QuietTicks
    /\ objs' = [i \in 1..Len(objs) |->
                   [objs[i] EXCEPT
                       !.timers = [j \in 1..Len(@) |->
                                      [@[j] EXCEPT !.age = IF @ < QuietTicks THEN @ + 1 ELSE @]],
                       !.quiet = IF objs[i].timers # <<>> /\ @ < QuietTicks THEN @ + 1 ELSE @]]
    /\ event' = NoEvent
    /\ UNCHANGED <<exists, text, nm, ignoredDirectories, validators, order, hvars,
                   diagnostics, scans, creates, warning, vvars>>

\* The user answers the warning on display with "Fix all": the callback
\* installs in every package root the warning was shown for, in the order
\* of the array showNotification captured.
AnswerFixAll ==
    /\ Change
    /\ warning.shown
    /\ LET roots == warning.pkgs
           new   == [j \in 1..Len(roots) |-> installDependencies(roots[j], locks[roots[j]])]
       IN  /\ Len(terminals) + Len(new) <= MaxTerminals
           /\ terminals' = terminals \o new
           /\ event' = [Ev("fixAll", "", 0, FALSE, FALSE) EXCEPT !.installs = roots]
    /\ warning' = NoWarning
    /\ UNCHANGED <<exists, text, nm, ignoredDirectories, objs, validators, order, hvars,
                   diagnostics, scans, creates, inDoc, inNm, out, again, locks, qvars>>

\* The user answers the warning with "Settings" or "Dismiss", or closes it.
AnswerOther ==
    /\ Change
    /\ warning.shown
    /\ warning' = NoWarning
    /\ event' = NoEvent
    /\ UNCHANGED <<exists, text, nm, ignoredDirectories, objs, validators, order, hvars,
                   diagnostics, scans, creates, vvars>>

\* The oldest timeout of validator i is due and its callback runs.
TimerFire(i) ==
    /\ UNCHANGED changes
    /\ objs[i].timers # <<>>
    /\ Head(objs[i].timers).age = QuietTicks
    /\ \E r \in {Pass(i)} :
       LET p == objs[i].path
           t == Head(objs[i].timers)
           e == [PassEv("timer", p, i, r.threw, FALSE) EXCEPT !.burst = t.burst,
                                                          !.quiet = objs[i].quiet]
       IN  /\ objs' = [objs EXCEPT ![i] =
                          [@ EXCEPT !.timers = Tail(@), !.valid = r.valid,
                                    !.quiet = IF Tail(objs[i].timers) = <<>> THEN 0 ELSE @]]
           /\ diagnostics' = WriteEntry(diagnostics, p, r.entry)
           /\ IF r.threw
              THEN /\ event' = e
                   /\ UNCHANGED warning
              ELSE IF t.notify
              THEN /\ warning' = showNotification(order, validators, objs', warning)
                   /\ event' = [e EXCEPT !.notified = TRUE]
              ELSE /\ event' = e
                   /\ UNCHANGED warning
    /\ UNCHANGED <<exists, text, nm, ignoredDirectories, validators, order, hvars, scans,
                   creates, vvars>>

Next ==
    \/ \E k \in 1..Len(scans) : ScanFind(k)
    \/ \E k \in 1..Len(scans) : ScanOpen(k)
    \/ \E p \in Paths, kind \in DocKinds : CreateFile(p, kind)
    \/ \E p \in Paths : CreateOpen(p)
    \/ \E p \in Paths : DeleteFile(p)
    \/ \E s \in IgnoreSettings : ChangeConfiguration(s)
    \/ \E strict \in BOOLEAN : Deactivate(strict)
    \/ \E p \in Paths, reopened \in BOOLEAN : EditDocument(p, reopened)
    \/ \E p \in Paths : SaveDocument(p)
    \/ \E p \in Paths : ChangeNodeModules(p)
    \/ AnswerFixAll
    \/ AnswerOther
    \/ Tick
    \/ \E i \in 1..Len(objs) : TimerFire(i)

Spec == Init /\ [][Next]_vars

(***************************************************************************)
(* The validation pass on its own: one manifest, one node_modules, and     *)
(* the result of validateDependencies on them.                             *)
(***************************************************************************)
InitV ==
    /\ \E input \in PassInputs : inDoc = input[1] /\ inNm = input[2]
    /\ out = NotRun
    /\ again = NotRun
    /\ locks = [p \in Paths |-> {}] /\ terminals = <<>>
    /\ offered = NotAsked
    /\ exists = [p \in Paths |-> FALSE]
    /\ text = [p \in Paths |-> "good"]
    /\ nm = [p \in Paths |-> "gone"]
    /\ ignoredDirectories = {}
    /\ objs = <<>>
    /\ validators = [p \in Paths |-> 0]
    /\ order = <<>>
    /\ active = TRUE
    /\ strictHost = FALSE
    /\ diagnostics = [p \in Paths |-> <<>>]
    /\ scans = <<>>
    /\ creates = {}
    /\ warning = NoWarning
    /\ event = NoEvent
    /\ changes = 0

RunValidate ==
    /\ ~out.ran
    /\ \E r \in {validateDependencies(<<>>, inDoc, inNm)} :
          out' = [ran |-> TRUE, threw |-> r.threw, valid |-> r.valid, entry |-> r.entry]
    /\ UNCHANGED <<inDoc, inNm, again, ivars, qvars, lvars>>

\* validateDependencies() is called again, the document and node_modules
\* being what they were and the collection holding what the first call left.
RunAgain ==
    /\ out.ran
    /\ ~again.ran
    /\ \E r \in {validateDependencies(out.entry, inDoc, inNm)} :
          again' = [ran |-> TRUE, threw |-> r.threw, valid |-> r.valid, entry |-> r.entry]
    /\ UNCHANGED <<inDoc, inNm, out, ivars, qvars, lvars>>

NextV == RunValidate \/ RunAgain

SpecV == InitV /\ [][NextV]_vars

(***************************************************************************)
(* Installing on its own: every assignment of lock files to the roots, and *)
(* the command installing in either root.                                  *)
(***************************************************************************)
InitI ==
    /\ locks \in [Paths -> SUBSET LockFiles]
    /\ terminals = <<>>
    /\ offered = NotAsked
    /\ inDoc = WorkDoc("good") /\ inNm = WorkNm("ok") /\ out = NotRun /\ again = NotRun
    /\ exists = [p \in Paths |-> FALSE]
    /\ text = [p \in Paths |-> "good"]
    /\ nm = [p \in Paths |-> "gone"]
    /\ ignoredDirectories = {}
    /\ objs = <<>>
    /\ validators = [p \in Paths |-> 0]
    /\ order = <<>>
    /\ active = TRUE
    /\ strictHost = FALSE
    /\ diagnostics = [p \in Paths |-> <<>>]
    /\ scans = <<>>
    /\ creates = {}
    /\ warning = NoWarning
    /\ event = NoEvent
    /\ changes = 0

\* The command dependencyDiagnostics.installDependencies runs for root p.
Install(p) ==
    /\ Len(terminals) < MaxTerminals
    /\ terminals' = Append(terminals, installDependencies(p, locks[p]))
    /\ UNCHANGED <<locks, inDoc, inNm, out, again, qvars, lvars>>

NextI == \E p \in Paths : Install(p)

SpecI == InitI /\ [][NextI]_vars

(***************************************************************************)
(* Quick fixes: CodeActionProvider (providers/code-action.provider.ts).    *)
(***************************************************************************)
\* TextDocument.lineAt(line).text, line being 0-based: the line without its
\* line break.
lineAt(content, line) == Split(content, "\n")[line + 1]

\* The first index >= i of s that holds no white space.
RECURSIVE SkipSpace(_, _)
SkipSpace(s, i) ==
    IF i <= Len(s) /\ IsSpace(s[i]) THEN SkipSpace(s, i + 1) ELSE i

NoPair == [found |-> FALSE, name |-> <<>>, version |-> <<>>]

\* /"([^"]+)"\s*:\s*"([^"]+)"/ tried at s[i..]: a group cannot hold a quote
\* and a quote follows it, so it runs to the next quote and is not empty.
PairAt(s, i) ==
    IF i > Len(s) \/ s[i] # "\"" THEN NoPair
    ELSE LET close1 == IndexOfChar(s, "\"", i + 1)
             colon  == SkipSpace(s, close1 + 1)
             open2  == SkipSpace(s, colon + 1)
             close2 == IndexOfChar(s, "\"", open2 + 1)
         IN  IF close1 = 0 \/ close1 = i + 1 THEN NoPair
             ELSE IF colon > Len(s) \/ s[colon] # ":" THEN NoPair
             ELSE IF open2 > Len(s) \/ s[open2] # "\"" THEN NoPair
             ELSE IF close2 = 0 \/ close2 = open2 + 1 THEN NoPair
             ELSE [found   |-> TRUE,
                   name    |-> SubSeq(s, i + 1, close1 - 1),
                   version |-> SubSeq(s, open2 + 1, close2 - 1)]

\* regex.exec(line): the leftmost match.
RECURSIVE ExecPairFrom(_, _)
ExecPairFrom(s, i) ==
    IF i > Len(s) THEN NoPair
    ELSE IF PairAt(s, i).found THEN PairAt(s, i)
    ELSE ExecPairFrom(s, i + 1)

NoScope == <<>>

\* findDependencyScope(doc, depLine): null is NoScope.
RECURSIVE findDependencyScope(_, _)
findDependencyScope(content, depLine) ==
    IF depLine < 0 THEN NoScope
    ELSE IF IndexOf(lineAt(content, depLine), Quote(DEPENDENCIES)) >= 0 THEN DEPENDENCIES
    ELSE IF IndexOf(lineAt(content, depLine), Quote(DEV_DEPENDENCIES)) >= 0 THEN DEV_DEPENDENCIES
    ELSE findDependencyScope(content, depLine - 1)

NoDependencyInfo ==
    [found |-> FALSE, name |-> <<>>, version |-> <<>>, packageRoot |-> "", scope |-> NoScope]

\* extractDependencyInfo(doc, range), packageRoot being the directory of the
\* document (path.dirname never gives an empty string).
extractDependencyInfo(content, packageRoot, range) ==
    LET match == ExecPairFrom(lineAt(content, range.startLine), 1)
        scope == findDependencyScope(content, range.startLine)
    IN  IF ~match.found THEN NoDependencyInfo
        ELSE IF scope = NoScope THEN NoDependencyInfo
        ELSE [found |-> TRUE, name |-> match.name, version |-> match.version,
              packageRoot |-> packageRoot, scope |-> scope]

\* createRunCommandAction(dep), present being the lock files of dep.packageRoot.
createRunCommandAction(dep, present) ==
    [title     |-> "Run \"" \o detectPackageManager(present) \o " install\"",
     kind      |-> "quickfix",
     command   |-> "dependencyDiagnostics.installDependencies",
     arguments |-> [name |-> dep.name, version |-> dep.version,
                    packageRoot |-> dep.packageRoot, scope |-> dep.scope]]

\* provideCodeActions(document, _range, context): the actions in the order
\* of context.diagnostics.
RECURSIVE provideCodeActions(_, _, _, _)
provideCodeActions(content, packageRoot, present, contextDiagnostics) ==
    IF contextDiagnostics = <<>> THEN <<>>
    ELSE LET diagnostic == Head(contextDiagnostics)
             rest       == provideCodeActions(content, packageRoot, present, Tail(contextDiagnostics))
             depInfo    == extractDependencyInfo(content, packageRoot, diagnostic.range)
         IN  IF \/ diagnostic.source # "dependency-diagnostics"
                \/ ~(diagnostic.code = "not-installed" \/ diagnostic.code = "version-mismatch")
             THEN rest
             ELSE IF ~depInfo.found THEN rest
             ELSE <<createRunCommandAction(depInfo, present)>> \o rest

(***************************************************************************)
(* Quick fixes on their own: a manifest in one of its layouts, a           *)
(* validation pass on it, and a request for the code actions of the        *)
(* diagnostics the pass left, alone or among diagnostics of others.        *)
(***************************************************************************)
NameV == <<"v", "1", ".", "2", ".", "0">>

\* What stands between the colon and the value: nothing, a blank, or a line
\* break and a blank.
Separators == {<<>>, <<" ">>, <<"\n", " ">>}

LayoutEntries == [rawKey : {NameA, NameV}, rawVal : {Caret1, V120}, sep : Separators]

LayoutDocs ==
    {[ok |-> TRUE, sections |-> <<[name |-> sec, entries |-> es]>>] :
        sec \in {DEPENDENCIES, DEV_DEPENDENCIES},
        es \in {q \in SeqsUpTo(LayoutEntries, MaxEntries) :
                   /\ q # <<>>
                   /\ \A i, j \in 1..Len(q) : q[i].rawKey = q[j].rawKey => i = j}}

LayoutNodeModules ==
    {[n \in Names |-> IF n = NameA THEN fa ELSE [kind |-> "missing", version |-> <<>>]] :
        fa \in {f \in FileStates : f.kind = "missing" \/ f.version \in {V120, V200}}}

QuickFixInputs == LayoutDocs \X LayoutNodeModules

\* The package root of the document the quick fixes are asked for.
DocumentRoot == "app"

InitQ ==
    /\ \E input \in QuickFixInputs : inDoc = input[1] /\ inNm = input[2]
    /\ out = NotRun
    /\ again = NotRun
    /\ locks \in {[p \in Paths |-> present] : present \in {{}, {"yarn.lock"}}}
    /\ terminals = <<>>
    /\ offered = NotAsked
    /\ exists = [p \in Paths |-> FALSE]
    /\ text = [p \in Paths |-> "good"]
    /\ nm = [p \in Paths |-> "gone"]
    /\ ignoredDirectories = {}
    /\ objs = <<>>
    /\ validators = [p \in Paths |-> 0]
    /\ order = <<>>
    /\ active = TRUE
    /\ strictHost = FALSE
    /\ diagnostics = [p \in Paths |-> <<>>]
    /\ scans = <<>>
    /\ creates = {}
    /\ warning = NoWarning
    /\ event = NoEvent
    /\ changes = 0

\* Diagnostics on the same spans that are not the validator's: of another
\* source, or with another code.
ContextKinds == {"own", "source", "code"}

Foreign(kind, entry) ==
    [i \in 1..Len(entry) |->
        IF kind = "source" THEN [entry[i] EXCEPT !.source = "json"]
        ELSE [entry[i] EXCEPT !.code = "deprecated"]]

\* The editor asks for the code actions of a range that holds the
\* diagnostics of the pass and, for kind # "own", those of others.
ProvideCodeActions(kind) ==
    /\ out.ran
    /\ ~offered.ran
    /\ LET context == IF kind = "own" THEN out.entry
                      ELSE Foreign(kind, out.entry) \o out.entry
       IN  offered' = [ran     |-> TRUE,
                       context |-> context,
                       actions |-> provideCodeActions(getText(inDoc), DocumentRoot,
                                                      locks[DocumentRoot], context)]
    /\ UNCHANGED <<inDoc, inNm, out, again, ivars, lvars>>

NextQ == RunValidate \/ \E kind \in ContextKinds : ProvideCodeActions(kind)

SpecQ == InitQ /\ [][NextQ]_vars

(***************************************************************************)
(* Properties of one validation pass (SpecV).                              *)
(***************************************************************************)
\* What the manifest declares, read off the document's structure: the
\* entries of the section called sec, the names it declares and the value
\* JSON.parse gives a name (the last entry of that name).
EntriesIn(doc, sec) ==
    LET ss == SelectSeq(doc.sections, LAMBDA x : x.name = sec)
    IN  IF ss = <<>> THEN <<>> ELSE ss[Len(ss)].entries

KeysIn(doc, sec) ==
    {Unescape(EntriesIn(doc, sec)[i].rawKey) : i \in 1..Len(EntriesIn(doc, sec))}

ValueIn(doc, sec, name) ==
    LET es == SelectSeq(EntriesIn(doc, sec), LAMBDA e : Unescape(e.rawKey) = name)
    IN  Unescape(es[Len(es)].rawVal)

CheckedNames == KeysIn(inDoc, DEPENDENCIES) \cup KeysIn(inDoc, DEV_DEPENDENCIES)

\* The merged mapping of the manifest under validation.
Merged == getAllDependencies(JSONParse(inDoc).value)

DiagsFor(name) == SelectSeq(out.entry, LAMBDA d : d.dep = name)

Completed == out.ran /\ ~out.threw

\* No installed version was read for name: the lookup failed, or gave an
\* empty version string, which JavaScript takes for false like null.
Absent(name) ==
    LET f == File(inNm, name) IN f.kind # "version" \/ f.version = <<>>

InstalledIs(name, v) == File(inNm, name) = [kind |-> "version", version |-> v]

\* The characters of the document a diagnostic's range covers.
SpanText(d) ==
    SubSeq(getText(inDoc), d.range.offset + 1,
           d.range.offset + (d.range.endChar - d.range.startChar))

IsMismatch(d, installed, declared) ==
    /\ d.code = "version-mismatch"
    /\ d.severity = "Error"
    /\ d.message =
          [text |-> "Installed version (<installed>) does not match declared version (<declared>)",
           installed |-> installed, declared |-> declared]

IsNotInstalled(d) ==
    /\ d.code = "not-installed"
    /\ d.severity = "Warning"
    /\ d.message = [text |-> "Dependency not installed", installed |-> <<>>, declared |-> <<>>]

\* C1: a completed pass emits diagnostics only for names of the merged
\* dependencies/devDependencies mapping, at most one per name, and one for a
\* name exactly when (no installed version was read or the installed version
\* does not satisfy the declared range) and the span of the declared value is
\* found in the text.  In particular: nothing declared, no diagnostics;
\* ^1.0.0 with 1.2.0 installed, none; ^1.0.0 with 2.0.0 installed, exactly one.
C1_OneDiagnosticPerUnmetDependency ==
    Completed =>
        /\ \A i \in 1..Len(out.entry) : HasKey(Merged, out.entry[i].dep)
        /\ \A i \in 1..Len(Merged) :
              LET name     == Merged[i].k
                  declared == Merged[i].v
                  unmet    == Absent(name) \/ ~Satisfies(File(inNm, name).version, declared)
                  found    == findVersionRange(getText(inDoc), name, declared).found
              IN  /\ Len(DiagsFor(name)) = (IF unmet /\ found THEN 1 ELSE 0)
                  /\ declared = Caret1 /\ InstalledIs(name, V120) => DiagsFor(name) = <<>>
                  /\ declared = Caret1 /\ InstalledIs(name, V200) /\ found
                        => Len(DiagsFor(name)) = 1
        /\ CheckedNames = {} => out.entry = <<>>
        /\ inDoc = DocOf(<<GoodEntry>>, TRUE) /\ InstalledIs(NameA, V200) => Len(out.entry) = 1

\* Two names are declared; the installed version of one satisfies its range
\* and the other gets the only diagnostic.
C1_Witness ==
    /\ Completed
    /\ Len(Merged) = 2
    /\ Len(out.entry) = 1
    /\ \E i \in 1..2 : /\ ~Absent(Merged[i].k)
                       /\ Satisfies(File(inNm, Merged[i].k).version, Merged[i].v)

\* C2: every diagnostic of a completed pass has one of two shapes, chosen by
\* whether an installed version was read for its dependency: if so, code
\* version-mismatch, severity Error and the mismatch message with the
\* installed version and the declared range; if not, code not-installed,
\* severity Warning and the message "Dependency not installed".
C2_TwoShapes ==
    Completed =>
        \A i \in 1..Len(out.entry) :
            LET d == out.entry[i]
            IN  /\ HasKey(Merged, d.dep)
                /\ d.source = "dependency-diagnostics"
                /\ IF Absent(d.dep)
                   THEN IsNotInstalled(d)
                   ELSE IsMismatch(d, File(inNm, d.dep).version, Get(Merged, d.dep))

\* One pass emits a diagnostic of each shape.
C2_Witness ==
    /\ Completed
    /\ Len(out.entry) = 2
    /\ out.entry[1].code = "version-mismatch"
    /\ out.entry[2].code = "not-installed"

FailureKinds == {"missing", "unreadable", "unparsable", "noversion"}

\* C3: when the lookup of a declared dependency fails (its package.json in
\* node_modules is missing, unreadable, unparsable or has no version field),
\* nothing is raised, the dependency gets exactly one diagnostic if its span
\* is found (none otherwise), of the not-installed shape, and the pass gives
\* the same result for each of the four failures.
C3_LookupFailuresAreNotInstalled ==
    out.ran /\ inDoc.ok =>
        \A i \in 1..Len(Merged) :
            LET name  == Merged[i].k
                found == findVersionRange(getText(inDoc), name, Merged[i].v).found
            IN  File(inNm, name).kind \in FailureKinds =>
                    /\ ~getInstalledVersion(inNm, name).threw
                    /\ ~out.threw
                    /\ Len(DiagsFor(name)) = (IF found THEN 1 ELSE 0)
                    /\ \A j \in 1..Len(DiagsFor(name)) : IsNotInstalled(DiagsFor(name)[j])
                    /\ \A k \in FailureKinds :
                          LET r == validateDependencies(<<>>, inDoc,
                                       [inNm EXCEPT ![name] = [kind |-> k, version |-> <<>>]])
                          IN  /\ r.threw = out.threw
                              /\ r.valid = out.valid
                              /\ r.entry = out.entry

\* The installed package.json of the one declared dependency is not JSON and
\* the pass reports the dependency as not installed.
C3_Witness ==
    /\ Completed
    /\ Len(Merged) = 1
    /\ File(inNm, Merged[1].k).kind = "unparsable"
    /\ Len(out.entry) = 1
    /\ out.entry[1].code = "not-installed"
    /\ out.entry[1].severity = "Warning"

\* The name is declared in dependencies and in devDependencies with
\* different ranges.
InBoth(name) ==
    /\ inDoc.ok
    /\ name \in KeysIn(inDoc, DEPENDENCIES)
    /\ name \in KeysIn(inDoc, DEV_DEPENDENCIES)
    /\ ValueIn(inDoc, DEPENDENCIES, name) # ValueIn(inDoc, DEV_DEPENDENCIES, name)

\* The diagnostic d of name is about the devDependencies range alone.
JudgedByDev(d, name) ==
    /\ SpanText(d) = ValueIn(inDoc, DEV_DEPENDENCIES, name)
    /\ d.message.declared # ValueIn(inDoc, DEPENDENCIES, name)
    /\ IF Absent(name) THEN IsNotInstalled(d)
       ELSE IsMismatch(d, File(inNm, name).version, ValueIn(inDoc, DEV_DEPENDENCIES, name))

\* C9: for a name declared in dependencies and in devDependencies with
\* different ranges, the pass emits at most one diagnostic, and emits it
\* exactly when no installed version was read or the installed version does
\* not satisfy the devDependencies range, and the span of the devDependencies
\* value is found; the diagnostic covers and mentions the devDependencies
\* range, never the dependencies range.
C9_DevDependenciesRangeWins ==
    \A name \in Names :
        out.ran /\ InBoth(name) =>
            LET dev   == ValueIn(inDoc, DEV_DEPENDENCIES, name)
                unmet == Absent(name) \/ ~Satisfies(File(inNm, name).version, dev)
                found == findVersionRange(getText(inDoc), name, dev).found
            IN  /\ ~out.threw
                /\ Len(DiagsFor(name)) = (IF unmet /\ found THEN 1 ELSE 0)
                /\ \A j \in 1..Len(DiagsFor(name)) : JudgedByDev(DiagsFor(name)[j], name)

\* The installed version satisfies the dependencies range and fails the
\* devDependencies range, and the name has its one diagnostic.
C9_Witness ==
    /\ Completed
    /\ InBoth(NameA)
    /\ ~Absent(NameA)
    /\ Satisfies(File(inNm, NameA).version, ValueIn(inDoc, DEPENDENCIES, NameA))
    /\ Len(DiagsFor(NameA)) = 1
    /\ out.entry[1].code = "version-mismatch"

\* C9 as first stated: for a name declared in dependencies and in
\* devDependencies with different ranges, exactly one diagnostic is produced,
\* about the devDependencies range.
C9_ExactlyOneDiagnostic ==
    \A name \in Names :
        out.ran /\ InBoth(name) =>
            /\ ~out.threw
            /\ Len(DiagsFor(name)) = 1
            /\ \A j \in 1..Len(DiagsFor(name)) : JudgedByDev(DiagsFor(name)[j], name)

\* C10: only names declared under dependencies or devDependencies get
\* diagnostics; a name declared only under another section
\* (peerDependencies) gets none whatever is installed, the validator is
\* invalid only on account of a checked name, and a manifest that declares
\* nothing under the two sections is valid.
C10_OnlyDependenciesAndDevDependencies ==
    out.ran /\ inDoc.ok =>
        /\ ~out.threw
        /\ \A i \in 1..Len(out.entry) : out.entry[i].dep \in CheckedNames
        /\ \A name \in KeysIn(inDoc, PEER_DEPENDENCIES) \ CheckedNames : DiagsFor(name) = <<>>
        /\ ~out.valid => \E i \in 1..Len(out.entry) : out.entry[i].dep \in CheckedNames
        /\ CheckedNames = {} => out.valid /\ out.entry = <<>>

\* The manifest declares a package under peerDependencies only, the package
\* is not installed, and the pass leaves the validator valid.
C10_Witness ==
    /\ Completed
    /\ CheckedNames = {}
    /\ NameA \in KeysIn(inDoc, PEER_DEPENDENCIES)
    /\ File(inNm, NameA).kind = "missing"
    /\ out.valid
    /\ out.entry = <<>>

\* C11: an installed pre-release satisfies a range when it lies inside the
\* range in version order, where a pre-release comes before its release:
\* with ^1.0.0 declared and 1.1.0-beta.1 installed isVersionValid is true and
\* the dependency gets no diagnostic, whereas 1.0.0-beta.1 comes before
\* 1.0.0, isVersionValid is false and the dependency gets a version-mismatch
\* diagnostic (when its span is found).
C11_PrereleaseInsideRangeSatisfies ==
    Completed =>
        \A i \in 1..Len(Merged) :
            LET name      == Merged[i].k
                installed == getInstalledVersion(inNm, name)
                found     == findVersionRange(getText(inDoc), name, Caret1).found
            IN  Merged[i].v = Caret1 =>
                    /\ InstalledIs(name, V110beta1) =>
                          isVersionValid(installed, Caret1) /\ DiagsFor(name) = <<>>
                    /\ InstalledIs(name, V100beta1) =>
                          /\ ~isVersionValid(installed, Caret1)
                          /\ found => /\ Len(DiagsFor(name)) = 1
                                      /\ IsMismatch(DiagsFor(name)[1], V100beta1, Caret1)

\* ^1.0.0 is declared, 1.1.0-beta.1 is installed and the pass reports
\* nothing.
C11_Witness ==
    /\ Completed
    /\ Len(Merged) = 1
    /\ Merged[1].v = Caret1
    /\ InstalledIs(Merged[1].k, V110beta1)
    /\ out.valid
    /\ out.entry = <<>>

\* C11 as first stated: with ^1.0.0 declared and 1.0.0-beta.1 installed,
\* isVersionValid is true and the dependency gets no diagnostic.
C11_Beta1OfTheSameReleaseSatisfies ==
    Completed =>
        \A i \in 1..Len(Merged) :
            Merged[i].v = Caret1 /\ InstalledIs(Merged[i].k, V100beta1) =>
                /\ isVersionValid(getInstalledVersion(inNm, Merged[i].k), Caret1)
                /\ DiagsFor(Merged[i].k) = <<>>

\* The installed version of the i-th merged dependency is missing or fails
\* its declared range; the span of its declared value is found in the text.
Unmet(i) ==
    \/ Absent(Merged[i].k)
    \/ ~Satisfies(File(inNm, Merged[i].k).version, Merged[i].v)

SpanFound(i) == findVersionRange(getText(inDoc), Merged[i].k, Merged[i].v).found

\* C12: a dependency that fails its check and whose declared value is not
\* found in the text gets no diagnostic and raises nothing, and every other
\* dependency of the manifest, before or after it, is still checked and
\* reported: it has its one diagnostic exactly when it fails its check and
\* its span is found.
C12_SpanNotFoundIsSkipped ==
    out.ran /\ inDoc.ok =>
        \A i \in 1..Len(Merged) :
            Unmet(i) /\ ~SpanFound(i) =>
                /\ ~out.threw
                /\ DiagsFor(Merged[i].k) = <<>>
                /\ \A j \in 1..Len(Merged) :
                      j # i => Len(DiagsFor(Merged[j].k))
                                  = (IF Unmet(j) /\ SpanFound(j) THEN 1 ELSE 0)

\* The first of two dependencies has no span and the second, after it, has
\* the only diagnostic.
C12_Witness ==
    /\ Completed
    /\ Len(Merged) = 2
    /\ Unmet(1) /\ ~SpanFound(1)
    /\ Len(out.entry) = 1
    /\ out.entry[1].dep = Merged[2].k

\* C13: a second pass on the same manifest text and the same node_modules
\* leaves what the first left: the same diagnostics (dependencies, codes,
\* severities, messages and spans, in the same order), the same valid flag,
\* and it raises exactly if the first did.
C13_ValidationIsIdempotent ==
    again.ran =>
        /\ out.ran
        /\ again.entry = out.entry
        /\ again.valid = out.valid
        /\ again.threw = out.threw
        /\ again.valid <=> again.entry = <<>>

\* Both passes left the same two diagnostics.
C13_Witness ==
    /\ again.ran
    /\ ~again.threw
    /\ Len(out.entry) = 2
    /\ again.entry = out.entry
    /\ ~again.valid

(***************************************************************************)
(* Properties of the extension's lifecycle (Spec).                         *)
(***************************************************************************)
\* The last handler ran a validation pass (of validator event.obj, on the
\* manifest of root event.path).
PassEvent ==
    event.kind \in {"scanAdd", "scanEnd", "createAdd", "save", "timer"} /\ event.obj # 0

\* The diagnostics of the document validator i holds and of its
\* node_modules as they stand, computed from scratch.
Expected(i) ==
    CheckAll(getText(WorkDoc(DocText(objs[i]))), WorkNm(nm[objs[i].path]),
             getAllDependencies(JSONParse(WorkDoc(DocText(objs[i]))).value))

\* C4: a validation pass on a manifest whose text is not JSON, whether run
\* from the Validator constructor, the save handler or the debounce timer,
\* raises nothing to its caller and leaves no diagnostics for the manifest.
C4_MalformedManifestSwallowed ==
    PassEvent /\ DocText(objs[event.obj]) = "bad" =>
        ~event.threw /\ diagnostics[event.path] = <<>>

\* C5: a scan that ends has given every manifest it found a validator and has
\* made its notification check, without a failure leaving it; a create
\* handler that constructs a validator ends without a failure.
C5_ValidationErrorsAreLocal ==
    /\ event.kind = "scanEnd" =>
          ~event.threw /\ event.added = event.found /\ event.notified
    /\ event.kind = "createAdd" => ~event.threw

\* C6: between events, the validator registered for a manifest is valid
\* exactly when the diagnostics collection holds nothing for the manifest.
C6_ValidIffNoDiagnostics ==
    \A p \in Paths :
        validators[p] # 0 => (objs[validators[p]].valid <=> diagnostics[p] = <<>>)

\* C7: after every completed validation pass the entry of the manifest in
\* the diagnostics collection is exactly what the pass computed from its
\* document and node_modules as they are (no entry when it computed
\* nothing): nothing of an earlier pass is left and nothing is merged.
C7_EntryIsLastPassResult ==
    PassEvent /\ ~event.threw => diagnostics[event.path] = Expected(event.obj)

\* A pass on a manifest that had diagnostics computed none and the entry is
\* gone.
C7_Witness ==
    /\ PassEvent
    /\ ~event.threw
    /\ event.had
    /\ Expected(event.obj) = <<>>
    /\ diagnostics[event.path] = <<>>

\* C8: a validator never has more than one timeout pending (each trigger
\* cancels the pending one and starts another), and a timer pass runs only a
\* full quiet period after the last trigger, stands for the whole burst of
\* triggers before it and leaves no timeout of the burst pending: one pass
\* per burst, after its last trigger.
C8_Debounce ==
    /\ \A i \in 1..Len(objs) : Len(objs[i].timers) <= 1
    /\ event.kind = "timer" =>
          /\ event.burst >= 1
          /\ event.quiet = QuietTicks
          /\ objs[event.obj].timers = <<>>

\* A timer pass that stands for a burst of two or more triggers.
C8_Witness ==
    /\ event.kind = "timer"
    /\ event.burst >= 2
    /\ event.quiet = QuietTicks
    /\ objs[event.obj].timers = <<>>

\* C14: in every state no validator is registered and no diagnostics are
\* held for a package.json in a directory that the setting ignores at that
\* moment.
C14_NothingForIgnoredDirectories ==
    \A p \in Paths :
        isDirectoryIgnored(ignoredDirectories, p) =>
            validators[p] = 0 /\ diagnostics[p] = <<>>

\* C15: when a scan has come to its end, every package.json it found that
\* is on disk and not ignored has a validator registered; when a create
\* handler has come to its end, the created package.json, if on disk and not
\* ignored, has the validator the handler constructed registered.
C15_WorkspaceCovered ==
    /\ event.kind \in {"scanEnd", "scanOpenFailed"} =>
          \A p \in event.found :
              exists[p] /\ ~isDirectoryIgnored(ignoredDirectories, p) => validators[p] # 0
    /\ event.kind \in {"createAdd", "createEnd"} =>
          (exists[event.path] /\ ~isDirectoryIgnored(ignoredDirectories, event.path)
              => validators[event.path] # 0 /\ validators[event.path] = event.obj)

(***************************************************************************)
(* Properties of installing (SpecI).                                       *)
(***************************************************************************)
\* The package manager for each of the eight sets of lock files.
ManagerTable(present) ==
    CASE present = {}                                                 -> "npm"
      [] present = {"yarn.lock"}                                      -> "yarn"
      [] present = {"pnpm-lock.yaml"}                                 -> "pnpm"
      [] present = {"pnpm-lock.yaml", "yarn.lock"}                    -> "pnpm"
      [] present = {"package-lock.json"}                              -> "npm"
      [] present = {"package-lock.json", "yarn.lock"}                 -> "npm"
      [] present = {"package-lock.json", "pnpm-lock.yaml"}            -> "npm"
      [] present = {"package-lock.json", "pnpm-lock.yaml", "yarn.lock"} -> "npm"

\* C16: every terminal installDependencies creates for a root has that root
\* as its working directory and is sent exactly "<manager> install", the
\* manager being npm if package-lock.json is in the root, else pnpm if
\* pnpm-lock.yaml is, else yarn if yarn.lock is, else npm.
C16_PackageManagerDetection ==
    \A i \in 1..Len(terminals) :
        LET t == terminals[i]
        IN  /\ t.cwd \in Paths
            /\ t.text = (CASE ManagerTable(locks[t.cwd]) = "npm"  -> "npm install"
                            [] ManagerTable(locks[t.cwd]) = "pnpm" -> "pnpm install"
                            [] ManagerTable(locks[t.cwd]) = "yarn" -> "yarn install")
            /\ detectPackageManager(locks[t.cwd]) = ManagerTable(locks[t.cwd])

\* A root with pnpm-lock.yaml and yarn.lock gets "pnpm install", and a root
\* with yarn.lock alone gets "yarn install".
C16_Witness ==
    /\ Len(terminals) = 2
    /\ locks[terminals[1].cwd] = {"pnpm-lock.yaml", "yarn.lock"}
    /\ terminals[1].text = "pnpm install"
    /\ locks[terminals[2].cwd] = {"yarn.lock"}
    /\ terminals[2].text = "yarn install"

(***************************************************************************)
(* Properties of the warning (Spec).                                       *)
(***************************************************************************)
\* The roots of the manifests whose registered validator is invalid.
InvalidNow == {p \in Paths : validators[p] # 0 /\ ~objs[validators[p]].valid}

\* The roots the warning on display was shown for.
Shown == {warning.pkgs[j] : j \in 1..Len(warning.pkgs)}

\* C17: a call of showNotification shows the warning exactly if some
\* registered validator is invalid at that moment; and when the user answers
\* "Fix all", an install is started once in the root of every manifest whose
\* registered validator is invalid, and in no other root.
C17_WarningAndFixAll ==
    /\ event.notified =>
          /\ warning.fresh <=> InvalidNow # {}
          /\ warning.fresh => warning.shown /\ Shown = InvalidNow
    /\ event.kind = "fixAll" =>
          /\ \A j \in 1..Len(event.installs) : event.installs[j] \in InvalidNow
          /\ \A p \in InvalidNow : \E j \in 1..Len(event.installs) : event.installs[j] = p
          /\ \A j, k \in 1..Len(event.installs) :
                event.installs[j] = event.installs[k] => j = k

\* C17, the part about showNotification alone.
C17_ShownIffInvalid ==
    event.notified =>
        /\ warning.fresh <=> InvalidNow # {}
        /\ warning.fresh => warning.shown /\ Shown = InvalidNow

(***************************************************************************)
(* Properties of the quick fixes (SpecQ).                                  *)
(***************************************************************************)
\* The diagnostics provideCodeActions does not pass over.
Eligible(d) ==
    /\ d.source = "dependency-diagnostics"
    /\ d.code \in {"not-installed", "version-mismatch"}

ActionsFor(name) ==
    {j \in 1..Len(offered.actions) : offered.actions[j].arguments.name = name}

\* Every eligible diagnostic of the context got an install action, and
\* every diagnostic of the pass exactly one.
OneActionEach ==
    /\ Len(offered.actions) = Len(SelectSeq(offered.context, Eligible))
    /\ \A j \in 1..Len(offered.actions) :
          offered.actions[j].command = "dependencyDiagnostics.installDependencies"
    /\ \A i \in 1..Len(out.entry) : Cardinality(ActionsFor(out.entry[i].dep)) = 1

\* No entry of the manifest has a line break between its colon and value.
PairsOnOneLine ==
    \A k \in 1..Len(inDoc.sections) : \A i \in 1..Len(inDoc.sections[k].entries) :
        \A c \in 1..Len(inDoc.sections[k].entries[i].sep) :
            inDoc.sections[k].entries[i].sep[c] # "\n"

\* C18: the install actions returned are as many as the diagnostics of the
\* context with source dependency-diagnostics and code not-installed or
\* version-mismatch, and every diagnostic the validator emitted for the
\* document has exactly one, whatever the layout of the manifest.
C18_OneInstallActionPerDiagnostic == offered.ran => OneActionEach

\* C18, the part about the filter alone: no action is returned for a
\* diagnostic of another source or another code.
C18_OnlyOwnDiagnostics ==
    offered.ran =>
        /\ Len(offered.actions) <= Len(out.entry)
        /\ \A j \in 1..Len(offered.actions) :
              \E i \in 1..Len(out.entry) : offered.actions[j].arguments.name = out.entry[i].dep

\* C18, on manifests whose pairs stand on one line each.
C18_OneActionWhenPairOnOneLine == (offered.ran /\ PairsOnOneLine) => OneActionEach

(***************************************************************************)
(* The frame of a validation pass (Spec).                                  *)
(***************************************************************************)
\* A step in which a handler runs validateDependencies on a validator: the
\* save handler, or a timeout of revalidate falling due.  Every action
\* writes event, and SaveDocument and TimerFire alone leave these kinds.
PassStep == event'.kind \in {"save", "timer"}

\* A step in which the node_modules watchers call revalidate (the steps
\* that change node_modules).
RevalidateStep == nm' # nm /\ \E p \in Paths : ChangeNodeModules(p)

\* A step of a handler that calls addValidator, removeValidator or
\* disposeValidators: the kinds of event the scan, create, delete and
\* configuration handlers and the deactivation leave.
RegistrationStep ==
    event'.kind \in {"scanAdd", "scanEnd", "createAdd", "delete", "config", "deactivate"}

\* C19: a step that runs validateDependencies or revalidate leaves the
\* validators map and the set of validators as they are, changes no
\* diagnostics entry but that of the manifest of the validator that ran the
\* pass and no valid flag but that validator's (revalidate changes none);
\* and the validators map changes only in steps of addValidator,
\* removeValidator and disposeValidators.
C19_FrameOfAPass ==
    [][/\ (PassStep \/ RevalidateStep) =>
            /\ validators' = validators
            /\ Len(objs') = Len(objs)
            /\ \A q \in Paths :
                  diagnostics'[q] # diagnostics[q] => PassStep /\ q = event'.path
            /\ \A i \in 1..Len(objs) :
                  objs'[i].valid # objs[i].valid => PassStep /\ i = event'.obj
       /\ validators' # validators => RegistrationStep]_vars

\* A pass has changed the entry of its own manifest while another manifest,
\* with a registered validator, has diagnostics.
C19_Witness ==
    /\ event.kind \in {"save", "timer"}
    /\ event.obj # 0
    /\ event.had # (diagnostics[event.path] # <<>>)
    /\ \E q \in Paths \ {event.path} : validators[q] # 0 /\ diagnostics[q] # <<>>

(***************************************************************************)
(* Properties of the span of a diagnostic (SpecQ).                         *)
(***************************************************************************)
\* The last index <= i of s that holds no white space, or 0.
RECURSIVE SkipSpaceBack(_, _)
SkipSpaceBack(s, i) ==
    IF i >= 1 /\ IsSpace(s[i]) THEN SkipSpaceBack(s, i - 1) ELSE i

\* The n characters after 0-based offset are a value: the quote that opens
\* them follows a colon, white space apart, and a quote closes them.
InValuePosition(s, offset, n) ==
    /\ offset >= 1 /\ s[offset] = "\""
    /\ SkipSpaceBack(s, offset - 1) >= 1 /\ s[SkipSpaceBack(s, offset - 1)] = ":"
    /\ offset + n + 1 <= Len(s) /\ s[offset + n + 1] = "\""

SpanIsDeclaredRange(d) ==
    /\ SpanText(d) = Get(Merged, d.dep)
    /\ d.range.endChar - d.range.startChar = Len(Get(Merged, d.dep))
    /\ d.range.endLine = d.range.startLine
    /\ positionAt(getText(inDoc), d.range.offset) =
          [line |-> d.range.startLine, character |-> d.range.startChar]
    /\ InValuePosition(getText(inDoc), d.range.offset, Len(Get(Merged, d.dep)))

\* C20: the span of every diagnostic covers the characters of the declared
\* range between the quotes after the colon of its pair, as many as the
\* declared range has, and no character of the key.
C20_SpanIsTheValue ==
    Completed => \A i \in 1..Len(out.entry) : SpanIsDeclaredRange(out.entry[i])

\* C20, for the dependencies whose declared range does not occur in their
\* quoted name.
C20_SpanIsTheValueWhenNotInName ==
    Completed =>
        \A i \in 1..Len(out.entry) :
            IndexOf(Quote(out.entry[i].dep), Get(Merged, out.entry[i].dep)) < 0
                => SpanIsDeclaredRange(out.entry[i])

(***************************************************************************)
(* Teardown (Spec).                                                        *)
(***************************************************************************)
\* C21: a disposed validator has no timeout pending and is not in the
\* validators map; right after the delete handler has disposed the
\* validator of a manifest, and right after disposeValidators (on a change
\* of the setting or on deactivation), the manifests concerned have no
\* diagnostics and no entry in the map (after disposeValidators the map is
\* empty); and a disposed validator stays as it is: no timeout of it falls
\* due and no validation pass is its.
C21_TeardownCancels ==
    /\ [](\A i \in 1..Len(objs) :
             objs[i].disposed => objs[i].timers = <<>> /\ validators[objs[i].path] # i)
    /\ []((event.kind = "delete" /\ event.obj # 0) =>
             /\ objs[event.obj].disposed
             /\ diagnostics[event.path] = <<>>
             /\ validators[event.path] = 0)
    /\ [](event.kind \in {"config", "deactivate"} =>
             /\ \A p \in Paths : validators[p] = 0
             /\ \A p \in event.found : diagnostics[p] = <<>>)
    /\ [][\A i \in 1..Len(objs) :
             objs[i].disposed =>
                 /\ objs'[i] = objs[i]
                 /\ PassStep => event'.obj # i]_vars

\* C21, for the delete handler and the configuration handler.
C21_TeardownCancelsWhileActive ==
    /\ [](\A i \in 1..Len(objs) :
             objs[i].disposed => objs[i].timers = <<>> /\ validators[objs[i].path] # i)
    /\ []((event.kind = "delete" /\ event.obj # 0) =>
             /\ objs[event.obj].disposed
             /\ diagnostics[event.path] = <<>>
             /\ validators[event.path] = 0)
    /\ [](event.kind = "config" =>
             /\ \A p \in Paths : validators[p] = 0
             /\ \A p \in event.found : diagnostics[p] = <<>>)
    /\ [][\A i \in 1..Len(objs) :
             objs[i].disposed =>
                 /\ objs'[i] = objs[i]
                 /\ PassStep => event'.obj # i]_vars

(***************************************************************************)
(* Live validators (Spec).                                                 *)
(***************************************************************************)
\* The validators that are not disposed: their watchers are active.
Live == {i \in 1..Len(objs) : ~objs[i].disposed}

\* C22: no two validators that are not disposed are of the same manifest,
\* and each of them is the one the validators map holds for its manifest.
C22_OneLiveValidatorPerPath ==
    /\ \A i, j \in Live : objs[i].path = objs[j].path => i = j
    /\ \A i \in Live : validators[objs[i].path] = i

\* C22, with manifests that are well-formed JSON throughout.
C22_OneLiveValidatorPerPathWellFormed ==
    (\A i \in 1..Len(objs) : objs[i].path \notin ChangingRoots \/ text[objs[i].path] = "good")
        => \A i, j \in Live : objs[i].path = objs[j].path => i = j

(***************************************************************************)
(* Create and delete events of one manifest (Spec).                        *)
(***************************************************************************)
\* A create handler or a scan started for root p has not completed: the
\* handler awaits its document, or a scan awaits findFiles or has p ahead
\* in its loop.
PendingFor(p) ==
    \/ p \in creates
    \/ \E k \in 1..Len(scans) :
          \/ scans[k].stage = "find"
          \/ \E j \in 1..Len(scans[k].files) : scans[k].files[j] = p

\* C23: while the extension is active, a manifest that is deleted, with no
\* create handler and no scan pending for it, has no entry in validators and
\* none in the diagnostics collection.
C23_DeletedManifestIsGone ==
    \A p \in Paths :
        (active /\ ~exists[p] /\ ~PendingFor(p))
            => validators[p] = 0 /\ diagnostics[p] = <<>>

\* C23, for manifests outside the ignored directories.
C23_DeletedManifestIsGoneNotIgnored ==
    \A p \in Paths :
        (active /\ ~exists[p] /\ ~PendingFor(p) /\ ~isDirectoryIgnored(ignoredDirectories, p))
            => validators[p] = 0 /\ diagnostics[p] = <<>>

\* C23, for manifests outside the ignored directories none of whose
\* validators is left alive outside the validators map.
C23_DeletedManifestIsGoneNoStray ==
    \A p \in Paths :
        (/\ active /\ ~exists[p] /\ ~PendingFor(p) /\ ~isDirectoryIgnored(ignoredDirectories, p)
         /\ \A i \in Live : objs[i].path = p => validators[p] = i)
            => validators[p] = 0 /\ diagnostics[p] = <<>>

(***************************************************************************)
(* The notification of a debounced pass (Spec).                            *)
(***************************************************************************)
\* The last trigger of the timeout whose pass has just run was a deletion:
\* every change of node_modules triggers the validators of its root, and
\* the last change left the declared package removed.
LastTriggerWasDeletion == nm[event.path] = "gone"

\* C24: after the pass of a timeout showNotification is called exactly if
\* the last trigger of its burst was a deletion.
C24_NotifyIffLastTriggerDeletion ==
    event.kind = "timer" => (event.notified <=> LastTriggerWasDeletion)

\* C24, for the passes that come to their end.
C24_NotifyIffLastTriggerDeletionCompleted ==
    (event.kind = "timer" /\ ~event.threw) => (event.notified <=> LastTriggerWasDeletion)

\* A pass that stands for a deletion followed by a creation: no notification.
C24_SuppressedWitness ==
    /\ event.kind = "timer"
    /\ event.burst >= 2
    /\ ~event.threw
    /\ ~LastTriggerWasDeletion
    /\ ~event.notified

(***************************************************************************)
(* The entry a diagnostic highlights (SpecV).                              *)
(***************************************************************************)
\* The 0-based offset in getText(doc) at which section k begins, and those
\* between which its entry i lies (the blank before the key up to the line
\* break after the value).
SectionStart(doc, k) ==
    2 + Len(RenderSections(doc.sections))
      - Len(RenderSections(SubSeq(doc.sections, k, Len(doc.sections))))

EntryStart(doc, k, i) ==
    LET es == doc.sections[k].entries
    IN  SectionStart(doc, k) + Len(Quote(doc.sections[k].name)) + 3
        + Len(RenderEntries(es)) - Len(RenderEntries(SubSeq(es, i, Len(es))))

EntryEnd(doc, k, i) ==
    LET es == doc.sections[k].entries
    IN  SectionStart(doc, k) + Len(Quote(doc.sections[k].name)) + 3
        + Len(RenderEntries(es)) - Len(RenderEntries(SubSeq(es, i + 1, Len(es))))

\* The span of d lies on an entry of dependencies or devDependencies whose
\* key is the name of the dependency d is about.
OnItsDeclaration(d) ==
    \E k \in 1..Len(inDoc.sections) : \E i \in 1..Len(inDoc.sections[k].entries) :
        /\ inDoc.sections[k].name \in {DEPENDENCIES, DEV_DEPENDENCIES}
        /\ Unescape(inDoc.sections[k].entries[i].rawKey) = d.dep
        /\ EntryStart(inDoc, k, i) <= d.range.offset
        /\ d.range.offset + (d.range.endChar - d.range.startChar) <= EntryEnd(inDoc, k, i)

\* C25: the span of every diagnostic lies inside the dependencies or
\* devDependencies object, on an entry whose key is the dependency's name.
C25_SpanOnTheCheckedDeclaration ==
    Completed => \A j \in 1..Len(out.entry) : OnItsDeclaration(out.entry[j])

\* The strings of the manifest are written without escapes.
WrittenPlainly ==
    \A k \in 1..Len(inDoc.sections) : \A i \in 1..Len(inDoc.sections[k].entries) :
        /\ Unescape(inDoc.sections[k].entries[i].rawKey) = inDoc.sections[k].entries[i].rawKey
        /\ Unescape(inDoc.sections[k].entries[i].rawVal) = inDoc.sections[k].entries[i].rawVal

\* C25, for the manifests that write dependencies, devDependencies and
\* peerDependencies in this order, without escapes, and whose names have no
\* dot.
C25_SpanOnTheCheckedDeclarationInOrder ==
    (Completed /\ WrittenPlainly /\ <<inDoc, inNm>> \notin PlacementInputs)
        => \A j \in 1..Len(out.entry) : OnItsDeclaration(out.entry[j])

====
